---- MODULE Spec2Model ----
(***************************************************************************)
(* Skribly backend: the in-memory room registry (MemoryService), the game  *)
(* engine of the socket handlers (game_handlers.py, room_handlers.py), the *)
(* HTTP room routes (routes/rooms.py) and the per-room timers              *)
(* (TimerService / GameTimer).                                             *)
(*                                                                         *)
(* Spec      : every handler and every timer expiry is one atomic step     *)
(*             (the serial executions of the server).                      *)
(* SpecTimer : TimerService._start_timer / stop_timer and the GameTimer    *)
(*             thread, one step per statement that touches shared state.   *)
(* SpecConc  : handle_guess split at its reads and writes of the room.     *)
(***************************************************************************)
EXTENDS Integers, Sequences, FiniteSets, TLC

\* ------------------------------------------------------------------ bounds
\* a guess is only fed to the model while the guesser's score is below this
MaxScore == 100
\* select_word / auto-selection are only fed while words_used is shorter
MaxWordsUsed == 2
\* the results timer is only let expire while current_round is below this
MaxRoundCounter == 2
\* GameTimer objects created in the statement-level timer specification
MaxTimers == 3
\* the elapsed whole seconds the hint scheduler is run with
MaxHintSeconds == 45
\* tenths of a second by which a timer thread's wake-ups may lag in total
MaxDrift == 3

\* ------------------------------------------------------- program constants
BASE_SCORE == 100
SPEED_FACTOR == 5
DRAWER_BONUS == 50
ROOM_MAX_PLAYERS == 8
MIN_START_PLAYERS == 2
USERNAME_MIN == 3
USERNAME_MAX == 20
HINT_START == 10
HINT_EVERY == 10
MAX_REVEALS == 3

\* ------------------------------------------------------------ input domains
Users == {"alice", "bob"}
RoomIds == {"R1"}
None == "None"
\* room ids a client may put in a payload: a live room, or one that is not there
PayloadRooms == RoomIds \cup {"ZZZZZZ", None}
\* settings accepted by POST /api/rooms/create (rounds in 1..10, draw_time in 30..300)
RoundsChoices == {1}
DrawTimes == {60}
\* clock readings: seconds elapsed since turn_start_time, in tenths of a second
ElapsedTenths == {154, 700}

\* ------------------------------------------------------------------ strings
\* a string is a sequence of one-character strings
Cat == <<"c", "a", "t">>
Dog == <<"d", "o", "g">>
\* the word list of the room's difficulty (word_service.words_cache[difficulty])
WordList == {Cat}
NoWord == <<>>

\* str.lower() on the characters the inputs use
LowerChar(c) ==
    CASE c = "C" -> "c"
      [] c = "A" -> "a"
      [] c = "T" -> "t"
      [] OTHER -> c

Lower(s) == [i \in 1..Len(s) |-> LowerChar(s[i])]

RECURSIVE LStrip(_)
LStrip(s) == IF s # <<>> /\ Head(s) = " " THEN LStrip(Tail(s)) ELSE s

RECURSIVE RStrip(_)
RStrip(s) ==
    IF s # <<>> /\ s[Len(s)] = " " THEN RStrip(SubSeq(s, 1, Len(s) - 1)) ELSE s

\* str.strip()
Strip(s) == RStrip(LStrip(s))

NotSpace(c) == c # " "
\* '_' * len(word.replace(' ', ''))
Underscores(word) == [i \in 1..Len(SelectSeq(word, NotSpace)) |-> "_"]

\* word_service.validate_word(word, difficulty)
validate_word(word) == Lower(word) \in {Lower(w) : w \in WordList}

\* words a client may send with select_word
SelectInputs == {<<"C", "A", "T">>, <<"o", "w", "l">>, <<>>}
\* texts a client may send with submit_guess
GuessInputs == {<<" ", "C", "a", "t", " ">>, Dog, <<" ">>}

\* --------------------------------------------------------------------- state
VARIABLES
    user_sessions,   \* MemoryService.user_sessions: session_id -> user (or absent)
    active_rooms,    \* MemoryService.active_rooms: room_id -> room (or absent)
    mem_lock,        \* MemoryService._lock: "free", or "stuck" held by a hung thread
    active_timers,   \* TimerService.active_timers: room_id -> GameTimer (or absent)
    phase,           \* room_id -> the phase last announced to the room's clients
    emitted,         \* the events emitted by the last step, in order
    turns_drawn,     \* history, room_id -> `turns`, kept where a specification
                     \* switches it on: the turns of the current game that reached
                     \* the drawing phase, each with its round, index and drawer;
                     \* `turn_open`: the room was sent round_started and no
                     \* turn_ended since
    game_timers,     \* statement-level view: the GameTimer objects and their threads
    registered,      \* statement-level view: TimerService.active_timers, room -> object
    threads,         \* statement-level view: where each handler thread stands
    sockets          \* socket-level view: sid -> the socket's entry of
                     \* authenticated_sockets and the user_id of its Flask session

vars == <<user_sessions, active_rooms, mem_lock, active_timers, phase, emitted,
          turns_drawn, game_timers, registered, threads, sockets>>

\* what only the statement-level and the socket-level specifications change
fine == <<game_timers, registered, threads, sockets>>

\* the handler threads the statement-level specifications run side by side
Threads == {"t1", "t2"}
\* the GameTimer objects: as many as the bound lets TimerService create
TimerIds == 1..MaxTimers

\* a handler thread outside every handler; in a handler: its position, the caller,
\* the room, and the locals final_score and timer
Idle == [pc |-> "idle", op |-> "none", user |-> None, room |-> None, score |-> 0,
         timer |-> 0]
\* a GameTimer not constructed yet; once made, GameTimer.__init__ leaves is_running
\* False, stop_event clear and no thread
NoGameTimer == [made |-> FALSE, room |-> None, is_running |-> FALSE,
                stop_event |-> FALSE, thread |-> "none", cancelled |-> FALSE]

\* the history of a room's turns: not kept, and kept from an empty start
NoHistory == [on |-> FALSE, turns |-> {}, turn_open |-> FALSE]
History == [on |-> TRUE, turns |-> {}, turn_open |-> FALSE]

NoUser == [exists |-> FALSE, username |-> NoWord, current_room |-> None]

\* user_data as create_session stores it, current_room as set since
UserData(username, current_room) ==
    [exists |-> TRUE, username |-> username, current_room |-> current_room]

\* the username each client sends when it creates its session
UsernameOf(u) ==
    CASE u = "alice" -> <<"a", "l", "i", "c", "e">>
      [] u = "bob"   -> <<"b", "o", "b">>
      [] u = "carol" -> <<"c", "a", "r", "o", "l">>
NoRoom == [exists |-> FALSE]
\* the sockets the socket-level specification opens and closes
Sockets == {"s1", "s2"}
\* a socket that is not open; an open one has its authenticated_sockets entry
\* (user_id, or None without one), the user_id of its Flask session, and the
\* socket.io rooms that join_room(room_id) has entered it into
NoSocket == [connected |-> FALSE, authenticated |-> None, session |-> None,
             session_username |-> NoWord, rooms |-> {}]
NoTimer == [exists |-> FALSE]


\* ------------------------------------------------------------------- events
\* one emitted event: its name, the target, and the payload fields the model
\* reads. The target is the calling socket ("caller"), a socket.io room named by
\* `to` ("room", "room_except_self"), the first socket that authenticated_sockets
\* lists for user `to` ("sockets_of"), or every socket that authenticated_sockets
\* lists for a player of room `to` other than its drawer ("sockets_of_others")
Ev(name, via, to, word, n, scores) ==
    [ev |-> name, via |-> via, to |-> to, word |-> word, n |-> n, scores |-> scores]

\* emit(name, {...}) : to the calling socket
CallerEv(name) == Ev(name, "caller", "caller", NoWord, 0, <<>>)
ErrorEv == CallerEv("error")
\* socketio.emit(name, {...}, room=room_id)
RoomEv(name, r, word, n, scores) == Ev(name, "room", r, word, n, scores)

\* ----------------------------------------------------- one room's world view
\* A handler works on the room's dict in place (get_room returns the registry's own
\* object), on the room's timer and on the user sessions; `out` collects what it
\* emits and `hung` says that the thread blocked on MemoryService._lock for good.
World(r) ==
    [id |-> r, room |-> active_rooms[r], timer |-> active_timers[r],
     phase |-> phase[r], users |-> user_sessions, out |-> <<>>, hung |-> FALSE,
     drawn |-> turns_drawn[r]]

emit(w, e) ==
    [w EXCEPT !.out = Append(@, e),
              !.drawn.turn_open = IF e.ev = "round_started" THEN TRUE
                                  ELSE IF e.ev = "turn_ended" THEN FALSE ELSE @]

\* MemoryService.update_room: the dict is updated with itself, under _lock; a thread
\* that finds _lock held by a hung thread never returns from it
update_room(w) == IF mem_lock = "stuck" THEN [w EXCEPT !.hung = TRUE] ELSE w

\* TimerService.stop_timer, serial view: the timer is stopped and forgotten
stop_timer(w) == [w EXCEPT !.timer = NoTimer]

\* TimerService._start_timer, serial view: the previous timer is stopped, the new one
\* is registered and started
start_timer(w, type, cb) ==
    [w EXCEPT !.timer = [exists |-> TRUE, timer_type |-> type, callback |-> cb,
                         is_running |-> TRUE]]

\* the room's dict as MemoryService.create_room builds it
NewRoom(host_id, settings) ==
    [exists |-> TRUE, host |-> host_id, players |-> <<host_id>>,
     max_players |-> ROOM_MAX_PLAYERS, status |-> "waiting", settings |-> settings,
     game_state |-> [full |-> FALSE, current_round |-> 0, current_drawer |-> None,
                     current_word |-> NoWord, scores |-> [p \in {host_id} |-> 0],
                     turn_start_time |-> None, words_used |-> <<>>,
                     players_guessed |-> <<>>, drawer_order |-> <<>>,
                     current_drawer_index |-> 0]]

Range(s) == {s[i] : i \in 1..Len(s)}
Remove(s, x) == SelectSeq(s, LAMBDA y : y # x)
Perms(s) ==
    {q \in [1..Len(s) -> Range(s)] : \A i, j \in 1..Len(s) : i # j => q[i] # q[j]}
DictDel(d, k) == [x \in (DOMAIN d) \ {k} |-> d[x]]
DictSet(d, k, v) == [x \in (DOMAIN d) \cup {k} |-> IF x = k THEN v ELSE d[x]]

\* ----------------------------------------------------------- the game engine
\* list.sort(key=score, reverse=True): stable, entries of equal score keep their order
RECURSIVE sort_by_score(_)
sort_by_score(rs) ==
    IF rs = <<>> THEN <<>>
    ELSE LET sorted == sort_by_score(SubSeq(rs, 1, Len(rs) - 1))
             x == rs[Len(rs)]
         IN SelectSeq(sorted, LAMBDA y : y.score >= x.score) \o <<x>>
            \o SelectSeq(sorted, LAMBDA y : y.score < x.score)

\* _end_game, `final_results`: one entry per player whose user session exists, with
\* scores.get(player_id, 0), sorted by score
final_results(w) ==
    LET scores == w.room.game_state.scores
        entry(p) == [player_id |-> p,
                     score |-> IF p \in DOMAIN scores THEN scores[p] ELSE 0]
        listed == SelectSeq(w.room.players, LAMBDA p : w.users[p].exists)
    IN sort_by_score([i \in 1..Len(listed) |-> entry(listed[i])])

\* _end_game, the game_ended payload: `winner` is the first entry or None
GameEnded(w) ==
    LET results == final_results(w)
    IN [winner |-> IF results = <<>> THEN None ELSE results[1].player_id,
        final_results |-> results]

\* _end_game
end_game(w) ==
    LET payload == GameEnded(w)
        w1 == update_room([w EXCEPT !.room.status = "ended"])
    IN IF w1.hung THEN w1
       ELSE stop_timer([emit(w1, RoomEv("game_ended", w.id, NoWord, 0, payload))
                        EXCEPT !.phase = "ended"])

\* memory_service.get_user_session(p) returns a session; without one the lookup
\* `get_user_session(p)['username']` raises TypeError
has_session(w, p) == p \in DOMAIN w.users /\ w.users[p].exists

\* _start_word_selection_phase; the drawer's name is looked up for the payload, and
\* the function swallows the exception of a drawer without session
start_word_selection_phase(w) ==
    IF ~has_session(w, w.room.game_state.current_drawer) THEN w ELSE
    start_timer([emit(w, RoomEv("word_selection_started", w.id, NoWord, 10, <<>>))
                 EXCEPT !.phase = "word_selection"],
                "word_selection", "word_selection_timeout")

\* a _start_new_round that always takes the first player of drawer_order
start_new_round_first_drawer(w) ==
    LET gs == w.room.game_state IN
    IF gs.current_round > w.room.settings.rounds THEN end_game(w)
    ELSE IF ~gs.full THEN w
    ELSE IF gs.current_drawer_index >= Len(gs.drawer_order) THEN end_game(w)
    ELSE
      LET d  == gs.drawer_order[1]
          w1 == update_room([w EXCEPT !.room.game_state.current_drawer = d,
                                      !.room.game_state.current_word = NoWord,
                                      !.room.game_state.players_guessed = <<>>,
                                      !.room.game_state.turn_start_time = None])
      IN IF w1.hung \/ ~has_session(w1, d) THEN w1
         ELSE start_word_selection_phase(
                  emit(w1, RoomEv("round_started", w.id, NoWord, gs.current_round, <<>>)))

\* _start_new_round; a game_state without drawer_order (a room never started) raises
\* KeyError, which the function swallows
start_new_round(w) ==
    LET gs == w.room.game_state IN
    IF gs.current_round > w.room.settings.rounds THEN end_game(w)
    ELSE IF ~gs.full THEN w
    ELSE IF gs.current_drawer_index >= Len(gs.drawer_order) THEN end_game(w)
    ELSE
      LET d  == gs.drawer_order[gs.current_drawer_index + 1]
          w1 == update_room([w EXCEPT !.room.game_state.current_drawer = d,
                                      !.room.game_state.current_word = NoWord,
                                      !.room.game_state.players_guessed = <<>>,
                                      !.room.game_state.turn_start_time = None])
      IN IF w1.hung \/ ~has_session(w1, d) THEN w1
         ELSE start_word_selection_phase(
                  emit(w1, RoomEv("round_started", w.id, NoWord, gs.current_round, <<>>)))

\* _end_turn: results timer, then the drawer's bonus when everybody guessed; a drawer
\* without session makes the payload's name lookup raise, which the function swallows
end_turn(w, all_guessed) ==
    LET gs == w.room.game_state
        d  == gs.current_drawer
        w1 == start_timer([emit(w, RoomEv("turn_ended", w.id, gs.current_word,
                                          IF all_guessed THEN 1 ELSE 0, gs.scores))
                           EXCEPT !.phase = "results"],
                          "results", "results_timeout")
    IN IF d # None /\ ~has_session(w, d) THEN w
       ELSE IF all_guessed /\ d # None
       THEN [w1 EXCEPT !.room.game_state.scores =
                DictSet(gs.scores, d,
                        (IF d \in DOMAIN gs.scores THEN gs.scores[d] ELSE 0)
                        + DRAWER_BONUS)]
       ELSE w1

\* the room's clients are told the drawing phase began; the history notes the turn
reach_drawing(w) ==
    [w EXCEPT !.phase = "drawing",
              !.drawn.turns =
                  IF w.drawn.on
                  THEN @ \cup {[round |-> w.room.game_state.current_round,
                                index |-> w.room.game_state.current_drawer_index,
                                drawer |-> w.room.game_state.current_drawer]}
                  ELSE @]

\* threading.Timer(10.0, send_progressive_hints).start(): the hint scheduler of the
\* turn is started; recorded with the step's events, as a thread's start
HintTimerStarted(r) == Ev("hint_timer_started", "thread", r, NoWord, 10, <<>>)

\* _start_drawing_phase with the drawing timer whose expiry ends the turn
start_drawing_phase(w) ==
    LET w1 == update_room([w EXCEPT !.room.game_state.turn_start_time = "t"])
    IN IF w1.hung \/ ~has_session(w1, w.room.game_state.current_drawer) THEN w1
       ELSE start_timer(reach_drawing(
                            emit(emit(w1, RoomEv("drawing_started", w.id, NoWord,
                                                 w.room.settings.draw_time, <<>>)),
                                 HintTimerStarted(w.id))),
                        "drawing", "end_turn")

\* _start_next_turn_or_round
start_next_turn_or_round(w) ==
    LET gs == w.room.game_state IN
    IF ~gs.full THEN w
    ELSE IF gs.current_drawer_index + 1 >= Len(gs.drawer_order)
    THEN LET w1 == update_room([w EXCEPT
                       !.room.game_state.current_round = gs.current_round + 1,
                       !.room.game_state.current_drawer_index = 0])
         IN IF w1.hung THEN w1
            ELSE IF gs.current_round + 1 > w.room.settings.rounds THEN end_game(w1)
            ELSE start_timer([emit(w1, RoomEv("round_complete", w.id, NoWord,
                                              gs.current_round + 1, <<>>))
                              EXCEPT !.phase = "intermission"],
                             "intermission", "intermission_timeout")
    ELSE LET w1 == update_room([w EXCEPT !.room.game_state.current_drawer_index =
                                           gs.current_drawer_index + 1])
         IN IF w1.hung THEN w1 ELSE start_new_round(w1)


\* ------------------------------------------------------- the socket handlers
\* a handle_start_game that keeps the scores the room had
handle_start_game_keep_scores(w, u, order) ==
    IF w.room.host # u THEN emit(w, ErrorEv)
    ELSE IF Len(w.room.players) < MIN_START_PLAYERS THEN emit(w, ErrorEv)
    ELSE IF w.room.status = "playing" THEN emit(w, ErrorEv)
    ELSE
      LET gs == [full |-> TRUE, current_round |-> 1, current_drawer |-> None,
                 current_word |-> NoWord,
                 scores |-> w.room.game_state.scores,
                 turn_start_time |-> None, words_used |-> <<>>,
                 players_guessed |-> <<>>, drawer_order |-> order,
                 current_drawer_index |-> 0]
          w1 == update_room([w EXCEPT !.room.status = "playing",
                                      !.room.game_state = gs,
                                      !.drawn.turns = {}])
      IN IF w1.hung THEN w1
         ELSE start_new_round(
                  emit(emit(w1, RoomEv("game_started", w.id, NoWord, 1, <<>>)),
                       RoomEv("room_updated", w.id, NoWord, 0, <<>>)))

\* handle_start_game from "Check if user is host" on; order is random.shuffle's result
handle_start_game(w, u, order) ==
    IF w.room.host # u THEN emit(w, ErrorEv)
    ELSE IF Len(w.room.players) < MIN_START_PLAYERS THEN emit(w, ErrorEv)
    ELSE IF w.room.status = "playing" THEN emit(w, ErrorEv)
    ELSE
      LET gs == [full |-> TRUE, current_round |-> 1, current_drawer |-> None,
                 current_word |-> NoWord,
                 scores |-> [p \in Range(w.room.players) |-> 0],
                 turn_start_time |-> None, words_used |-> <<>>,
                 players_guessed |-> <<>>, drawer_order |-> order,
                 current_drawer_index |-> 0]
          w1 == update_room([w EXCEPT !.room.status = "playing",
                                      !.room.game_state = gs,
                                      !.drawn.turns = {}])
      IN IF w1.hung THEN w1
         ELSE start_new_round(
                  emit(emit(w1, RoomEv("game_started", w.id, NoWord, 1, <<>>)),
                       RoomEv("room_updated", w.id, NoWord, 0, <<>>)))

\* a select_word that announces the chosen word to the whole room
handle_select_word_broadcast(w, u, word) ==
    LET gs == w.room.game_state IN
    IF gs.current_drawer # u THEN emit(w, ErrorEv)
    ELSE IF word = <<>> THEN emit(w, ErrorEv)
    ELSE IF ~validate_word(word) THEN emit(w, ErrorEv)
    ELSE
      LET w1 == update_room([w EXCEPT
                    !.room.game_state.current_word = word,
                    !.room.game_state.words_used = Append(@, word),
                    !.room.game_state.turn_start_time = "t",
                    !.room.game_state.players_guessed = <<>>])
      IN IF w1.hung THEN w1
         ELSE start_drawing_phase(
                  emit(stop_timer(w1),
                       RoomEv("word_selected", w.id, word,
                              w.room.settings.draw_time, <<>>)))

\* handle_select_word from "Check if user is current drawer" on
handle_select_word(w, u, word) ==
    LET gs == w.room.game_state IN
    IF gs.current_drawer # u THEN emit(w, ErrorEv)
    ELSE IF word = <<>> THEN emit(w, ErrorEv)
    ELSE IF ~validate_word(word) THEN emit(w, ErrorEv)
    ELSE
      LET w1 == update_room([w EXCEPT
                    !.room.game_state.current_word = word,
                    !.room.game_state.words_used = Append(@, word),
                    !.room.game_state.turn_start_time = "t",
                    !.room.game_state.players_guessed = <<>>])
      IN IF w1.hung THEN w1
         ELSE start_drawing_phase(
                  emit(emit(stop_timer(w1),
                            Ev("word_selected", "sockets_of", u, word,
                               w.room.settings.draw_time, <<>>)),
                       Ev("word_selected", "sockets_of_others", w.id,
                          Underscores(word), Len(word), <<>>)))

\* time_remaining = max(0, draw_time - time_elapsed), in tenths of a second
TimeRemainingTenths(draw_time, elapsed) ==
    IF draw_time * 10 - elapsed > 0 THEN draw_time * 10 - elapsed ELSE 0

\* speed_bonus = int(time_remaining * 5)
speed_bonus(remaining) == (remaining * SPEED_FACTOR) \div 10

\* final_score = base_score + speed_bonus
final_score(draw_time, elapsed) ==
    BASE_SCORE + speed_bonus(TimeRemainingTenths(draw_time, elapsed))

\* handle_guess from "Check if user is not the current drawer" on; None.lower() and
\* time.time() - None raise, and the handler answers an exception with an error
handle_guess(w, u, text, elapsed) ==
    LET gs    == w.room.game_state
        guess == Lower(Strip(text))
    IN
    IF gs.current_drawer = u THEN emit(w, ErrorEv)
    ELSE IF u \in Range(gs.players_guessed) THEN emit(w, ErrorEv)
    ELSE IF gs.current_word = NoWord THEN emit(w, ErrorEv)
    ELSE IF guess = <<>> THEN emit(w, ErrorEv)
    ELSE IF gs.turn_start_time = None THEN emit(w, ErrorEv)
    ELSE IF guess = Lower(gs.current_word)
    THEN LET score  == final_score(w.room.settings.draw_time, elapsed)
             old    == IF u \in DOMAIN gs.scores THEN gs.scores[u] ELSE 0
             scores == DictSet(gs.scores, u, old + score)
             w1 == update_room([w EXCEPT
                        !.room.game_state.scores = scores,
                        !.room.game_state.players_guessed = Append(@, u)])
             w2 == emit(emit(w1, RoomEv("correct_guess", w.id, Lower(gs.current_word),
                                        score, scores)),
                        Ev("guess_correct", "room", u, Lower(gs.current_word), score,
                           <<>>))
             eligible_players == Remove(w.room.players, u)
         IN IF w1.hung THEN w1
            ELSE IF Len(w2.room.game_state.players_guessed) >= Len(eligible_players)
            THEN end_turn(stop_timer(w2), TRUE)
            ELSE w2
    ELSE emit(w, RoomEv("chat_message", w.id, guess, 0, <<>>))

\* ------------------------------------------------------- the timer callbacks
\* TimerService._handle_word_selection_timeout; word is get_random_word's result. The
\* drawing timer it starts only emits turn_timeout to the room's clients on expiry.
handle_word_selection_timeout(w, word) ==
    LET w1 == update_room([w EXCEPT
                  !.room.game_state.current_word = word,
                  !.room.game_state.words_used = Append(@, word),
                  !.room.game_state.turn_start_time = "t",
                  !.room.game_state.players_guessed = <<>>])
    IN IF w1.hung THEN w1
       ELSE start_timer(reach_drawing(
                            emit(emit(w1, Ev("word_selected", "sockets_of",
                                             w.room.game_state.current_drawer, word,
                                             w.room.settings.draw_time, <<>>)),
                                 Ev("word_selected", "sockets_of_others", w.id,
                                    Underscores(word), Len(word), <<>>))),
                        "drawing", "emit_turn_timeout")

\* the callback a GameTimer runs at expiry, by the closure it was started with
run_callback(w, word) ==
    CASE w.timer.callback = "word_selection_timeout" ->
             handle_word_selection_timeout(w, word)
      [] w.timer.callback = "end_turn" -> end_turn(w, FALSE)
      [] w.timer.callback = "emit_turn_timeout" ->
             emit(w, RoomEv("turn_timeout", w.id, NoWord, 0, <<>>))
      [] w.timer.callback = "results_timeout" -> start_next_turn_or_round(w)
      [] w.timer.callback = "intermission_timeout" -> start_new_round(w)


\* ------------------------------------------------------------------ actions
\* MemoryService.get_room
get_room(rid) == IF rid \in RoomIds THEN active_rooms[rid] ELSE NoRoom

\* the step changes nothing but what it emits
Answer(out) ==
    /\ emitted' = out
    /\ UNCHANGED <<user_sessions, active_rooms, mem_lock, active_timers, phase, turns_drawn, fine>>

\* the step leaves the handler's world as the new state of room w.id
CommitRoom(w) ==
    /\ active_rooms' = [active_rooms EXCEPT ![w.id] = w.room]
    /\ active_timers' = [active_timers EXCEPT ![w.id] = w.timer]
    /\ phase' = [phase EXCEPT ![w.id] = w.phase]
    /\ user_sessions' = w.users
    /\ emitted' = w.out
    /\ turns_drawn' = [turns_drawn EXCEPT ![w.id] = w.drawn]
    /\ UNCHANGED mem_lock

Commit(w) == CommitRoom(w) /\ UNCHANGED fine

\* POST /api/auth/session
create_session(u, raw) ==
    /\ ~user_sessions[u].exists
    /\ LET username == Strip(raw)
       IN IF username = <<>> THEN Answer(<<CallerEv("http_400")>>)
          ELSE /\ user_sessions' = [user_sessions EXCEPT ![u] = UserData(username, None)]
               /\ emitted' = <<CallerEv("http_201")>>
               /\ UNCHANGED <<active_rooms, mem_lock, active_timers, phase,
                              turns_drawn, fine>>

\* POST /api/rooms/create; r is the fresh id generate_room_id returned
create_room(u, r, settings) ==
    /\ user_sessions[u].exists
    /\ ~active_rooms[r].exists
    /\ IF mem_lock = "stuck"
       THEN Answer(<<>>)
       ELSE /\ active_rooms' = [active_rooms EXCEPT ![r] = NewRoom(u, settings)]
            /\ user_sessions' = [user_sessions EXCEPT ![u].current_room = r]
            /\ phase' = [phase EXCEPT ![r] = "waiting"]
            /\ emitted' = <<>>
            /\ UNCHANGED <<mem_lock, active_timers, turns_drawn, fine>>

\* MemoryService.add_player_to_room, once _lock is taken
add_player_to_room(room, player_id) ==
    IF player_id \notin Range(room.players) /\ Len(room.players) < room.max_players
    THEN [room EXCEPT !.players = Append(@, player_id),
                      !.game_state.scores = DictSet(@, player_id, 0)]
    ELSE room

\* POST /api/rooms/<room_id>/join
join_room(u, r) ==
    /\ user_sessions[u].exists
    /\ LET room == get_room(r)
       IN IF ~room.exists THEN Answer(<<CallerEv("http_404")>>)
          ELSE IF room.status # "waiting"
          THEN Answer(<<CallerEv("GAME_IN_PROGRESS")>>)
          ELSE IF u \in Range(room.players)
          THEN Answer(<<CallerEv("http_200")>>)
          ELSE IF Len(room.players) >= room.max_players
          THEN Answer(<<CallerEv("ROOM_FULL")>>)
          ELSE IF mem_lock = "stuck" THEN Answer(<<>>)
          ELSE /\ active_rooms' = [active_rooms EXCEPT ![r] = add_player_to_room(room, u)]
               /\ user_sessions' = [user_sessions EXCEPT ![u].current_room = r]
               /\ emitted' = <<RoomEv("player_joined", r, NoWord, 0, <<>>),
                               RoomEv("room_updated", r, NoWord, 0, <<>>),
                               CallerEv("http_200")>>
               /\ UNCHANGED <<mem_lock, active_timers, phase, turns_drawn, fine>>

\* socket event join_room
handle_join_room(u, rid) ==
    /\ user_sessions[u].exists
    /\ LET room == get_room(rid)
       IN IF rid = None \/ ~room.exists \/ u \notin Range(room.players)
          THEN Answer(<<ErrorEv>>)
          ELSE /\ user_sessions' = [user_sessions EXCEPT ![u].current_room = rid]
               /\ emitted' = <<CallerEv("room_joined"),
                               RoomEv("player_joined", rid, NoWord, 0, <<>>)>>
               /\ UNCHANGED <<active_rooms, mem_lock, active_timers, phase, turns_drawn, fine>>

\* remove_player_from_room without the "If host left, assign new host" step
remove_player_keep_host(room, player_id) ==
    [room EXCEPT !.players = Remove(room.players, player_id),
                 !.game_state.scores = DictDel(@, player_id)]

\* MemoryService.remove_player_from_room up to "Delete room if empty"
remove_player_from_room(room, player_id) ==
    LET players == Remove(room.players, player_id)
    IN [room EXCEPT !.players = players,
                    !.game_state.scores = DictDel(@, player_id),
                    !.host = IF room.host = player_id /\ players # <<>>
                             THEN players[1] ELSE @]

\* socket event leave_room. remove_player_from_room calls delete_room for an emptied
\* room while it still holds the non-reentrant _lock: that thread never returns, the
\* lock stays held, the room stays registered.
handle_leave_room(u, rid) ==
    /\ user_sessions[u].exists
    /\ LET room == get_room(rid)
       IN IF rid = None THEN Answer(<<ErrorEv>>)
          ELSE IF mem_lock = "stuck" THEN Answer(<<>>)
          ELSE IF ~(room.exists /\ u \in Range(room.players))
          THEN /\ user_sessions' = [user_sessions EXCEPT ![u].current_room = None]
               /\ emitted' = <<CallerEv("room_left")>>
               /\ UNCHANGED <<active_rooms, mem_lock, active_timers, phase, turns_drawn, fine>>
          ELSE LET left == remove_player_from_room(room, u) IN
               /\ active_rooms' = [active_rooms EXCEPT ![rid] = left]
               /\ IF left.players = <<>>
                  THEN /\ mem_lock' = "stuck"
                       /\ emitted' = <<>>
                       /\ UNCHANGED user_sessions
                  ELSE /\ user_sessions' = [user_sessions EXCEPT ![u].current_room = None]
                       /\ emitted' = <<CallerEv("room_left"),
                                       RoomEv("player_left", rid, NoWord, 0, <<>>),
                                       RoomEv("room_updated", rid, NoWord, 0, <<>>)>>
                       /\ UNCHANGED mem_lock
               /\ UNCHANGED <<active_timers, phase, turns_drawn, fine>>


\* The room a game handler works on: user_data['current_room'], or, for select_word
\* and submit_guess, the payload's room_id when the session names no room and the
\* caller is one of that room's players (the session is then repaired).
ResolvedRoom(u, fb, fallback_allowed) ==
    LET cur == user_sessions[u].current_room IN
    IF cur # None THEN cur
    ELSE IF fallback_allowed /\ fb # None /\ get_room(fb).exists
            /\ u \in Range(get_room(fb).players)
    THEN fb
    ELSE None

WithRoom(w, u, rid) == [w EXCEPT !.users[u].current_room = rid]

\* socket event start_game
start_game(u) ==
    /\ user_sessions[u].exists
    /\ LET rid == ResolvedRoom(u, None, FALSE)
       IN IF rid = None \/ ~get_room(rid).exists THEN Answer(<<ErrorEv>>)
          ELSE \E order \in Perms(active_rooms[rid].players) :
                   Commit(handle_start_game(World(rid), u, order))

\* socket event select_word
select_word(u, word, fb) ==
    /\ user_sessions[u].exists
    /\ LET rid == ResolvedRoom(u, fb, TRUE)
       IN IF rid = None \/ ~get_room(rid).exists THEN Answer(<<ErrorEv>>)
          ELSE /\ Len(active_rooms[rid].game_state.words_used) < MaxWordsUsed
               /\ Commit(handle_select_word(WithRoom(World(rid), u, rid), u, word))

\* socket event submit_guess
submit_guess(u, text, elapsed, fb) ==
    /\ user_sessions[u].exists
    /\ LET rid == ResolvedRoom(u, fb, TRUE)
       IN IF rid = None \/ ~get_room(rid).exists THEN Answer(<<ErrorEv>>)
          ELSE /\ u \in DOMAIN active_rooms[rid].game_state.scores
                      => active_rooms[rid].game_state.scores[u] < MaxScore
               /\ Commit(handle_guess(WithRoom(World(rid), u, rid), u, text, elapsed))

\* socket event turn_timeout: any socket, any room id
turn_timeout(rid) ==
    IF rid = None \/ ~get_room(rid).exists THEN Answer(<<>>)
    ELSE Commit(end_turn(World(rid), FALSE))

\* GameTimer._run_timer reaching the end of its countdown: is_running is cleared and
\* the callback runs in the timer's thread
timer_expires(r) ==
    /\ active_rooms[r].exists
    /\ active_timers[r].exists
    /\ active_timers[r].is_running
    /\ LET w == [World(r) EXCEPT !.timer.is_running = FALSE]
       IN IF w.timer.callback = "word_selection_timeout"
          THEN /\ Len(w.room.game_state.words_used) < MaxWordsUsed
               /\ \E word \in WordList :
                      Commit(run_callback(w, word))
          ELSE /\ w.timer.callback = "results_timeout"
                      => w.room.game_state.current_round < MaxRoundCounter
               /\ Commit(run_callback(w, NoWord))

\* ------------------------------------------------------------ specification
\* the room_id a select_word or submit_guess payload may carry; the handlers read it
\* only when the user's session names no room
FallbackRooms(u) ==
    IF user_sessions[u].current_room # None THEN {None} ELSE RoomIds \cup {None}

Settings == [rounds : RoundsChoices, draw_time : DrawTimes, max_players : {2}]

Init ==
    /\ user_sessions = [u \in Users |-> NoUser]
    /\ active_rooms = [r \in RoomIds |-> NoRoom]
    /\ mem_lock = "free"
    /\ active_timers = [r \in RoomIds |-> NoTimer]
    /\ phase = [r \in RoomIds |-> "none"]
    /\ emitted = <<>>
    /\ turns_drawn = [r \in RoomIds |-> NoHistory]
    /\ game_timers = [i \in TimerIds |-> NoGameTimer]
    /\ registered = [r \in RoomIds |-> 0]
    /\ threads = [t \in Threads |-> Idle]
    /\ sockets = [s \in Sockets |-> NoSocket]

Next ==
    \/ \E u \in Users : create_session(u, UsernameOf(u))
    \/ \E u \in Users, r \in RoomIds, st \in Settings : create_room(u, r, st)
    \/ \E u \in Users, r \in RoomIds : join_room(u, r)
    \/ \E u \in Users, rid \in PayloadRooms : handle_join_room(u, rid)
    \/ \E u \in Users, rid \in PayloadRooms : handle_leave_room(u, rid)
    \/ \E u \in Users : start_game(u)
    \/ \E u \in Users : \E word \in SelectInputs, fb \in FallbackRooms(u) :
           select_word(u, word, fb)
    \/ \E u \in Users : \E text \in GuessInputs, e \in ElapsedTenths,
          fb \in FallbackRooms(u) : submit_guess(u, text, e, fb)
    \/ \E rid \in PayloadRooms : turn_timeout(rid)
    \/ \E r \in RoomIds : timer_expires(r)

Spec == Init /\ [][Next]_vars


\* the guess is the room's word and handle_guess gets as far as scoring it
CorrectGuess(u, rid, text) ==
    /\ rid # None
    /\ get_room(rid).exists
    /\ active_rooms[rid].game_state.current_drawer # u
    /\ u \notin Range(active_rooms[rid].game_state.players_guessed)
    /\ active_rooms[rid].game_state.current_word # NoWord
    /\ Lower(Strip(text)) = Lower(active_rooms[rid].game_state.current_word)

\* scores[p], or 0 where handle_guess would first insert the key
ScoreOf(room, p) ==
    IF p \in DOMAIN room.game_state.scores THEN room.game_state.scores[p] ELSE 0

\* ------------------------------------- a room in its drawing phase, as Spec reaches it
\* alice created R1, bob joined, alice started the game and selected CAT
DrawingWorld ==
    LET st == [rounds |-> 1, draw_time |-> 60, max_players |-> 2]
        w0 == [id |-> "R1",
               room |-> add_player_to_room(NewRoom("alice", st), "bob"),
               timer |-> NoTimer, phase |-> "waiting",
               users |-> [u \in Users |-> UserData(UsernameOf(u), "R1")],
               out |-> <<>>, hung |-> FALSE, drawn |-> NoHistory]
    IN handle_select_word(handle_start_game(w0, "alice", <<"alice", "bob">>),
                          "alice", <<"C", "A", "T">>)

InitDrawing ==
    /\ mem_lock = "free"
    /\ user_sessions = DrawingWorld.users
    /\ active_rooms = [r \in RoomIds |-> DrawingWorld.room]
    /\ active_timers = [r \in RoomIds |-> DrawingWorld.timer]
    /\ phase = [r \in RoomIds |-> DrawingWorld.phase]
    /\ emitted = DrawingWorld.out
    /\ turns_drawn = [r \in RoomIds |-> DrawingWorld.drawn]
    /\ threads = [t \in Threads |-> Idle]
    /\ sockets = [s \in Sockets |-> NoSocket]

\* ------------------------- TimerService and GameTimer, statement by statement
\* Handler threads and timer threads call TimerService._start_timer and stop_timer
\* with no lock; every action below is one statement (or one run of statements that
\* touch no shared object) of timer_service.py. What a callback does to the room is
\* run_callback above; here it only runs.
\* what the serial specification works on
Room == <<user_sessions, active_rooms, mem_lock, active_timers, phase, emitted,
          turns_drawn>>

SetTimer(i, g) == game_timers' = [game_timers EXCEPT ![i] = g]
Goto(t, pc) == threads' = [threads EXCEPT ![t].pc = pc]
Return(t) == threads' = [threads EXCEPT ![t] = Idle]

\* where a thread goes on when stop_timer returns: back to its caller, which is
\* _start_timer ("Create and start new timer") or the handler
AfterStop(t) ==
    IF threads[t].op = "start" THEN Goto(t, "create") ELSE Return(t)

\* a thread enters TimerService.stop_timer: `if room_id in self.active_timers`
call_stop_timer(t, r) ==
    /\ threads[t].pc = "idle"
    /\ threads' = [threads EXCEPT ![t] =
           IF registered[r] = 0 THEN Idle
           ELSE [Idle EXCEPT !.pc = "get", !.op = "stop", !.room = r]]
    /\ UNCHANGED <<game_timers, registered>>
    /\ UNCHANGED <<Room, sockets>>

\* a thread enters TimerService._start_timer, whose first statement is stop_timer
call_start_timer(t, r) ==
    /\ threads[t].pc = "idle"
    /\ \E i \in TimerIds : ~game_timers[i].made
    /\ threads' = [threads EXCEPT ![t] =
           [Idle EXCEPT !.pc = IF registered[r] = 0 THEN "create" ELSE "get",
                        !.op = "start", !.room = r]]
    /\ UNCHANGED <<game_timers, registered>>
    /\ UNCHANGED <<Room, sockets>>

\* stop_timer: `timer = self.active_timers[room_id]`; a KeyError ends stop_timer
stop_timer_get(t) ==
    /\ threads[t].pc = "get"
    /\ IF registered[threads[t].room] = 0
       THEN AfterStop(t)
       ELSE threads' = [threads EXCEPT ![t].pc = "stop",
                                       ![t].timer = registered[threads[t].room]]
    /\ UNCHANGED <<game_timers, registered>>
    /\ UNCHANGED <<Room, sockets>>

\* GameTimer.stop up to the join: returns at once when is_running is already False
GameTimer_stop(t) ==
    /\ threads[t].pc = "stop"
    /\ LET i == threads[t].timer IN
       IF ~game_timers[i].is_running
       THEN /\ SetTimer(i, [game_timers[i] EXCEPT !.cancelled = TRUE])
            /\ Goto(t, "del")
       ELSE /\ SetTimer(i, [game_timers[i] EXCEPT !.is_running = FALSE,
                                                !.stop_event = TRUE])
            /\ Goto(t, "join")
    /\ UNCHANGED registered
    /\ UNCHANGED <<Room, sockets>>

\* GameTimer.stop: timer_thread.join(timeout=1.0) returns when the timer thread has
\* ended, or after a second if the thread is inside its callback
GameTimer_stop_join(t) ==
    /\ threads[t].pc = "join"
    /\ LET i == threads[t].timer IN
       /\ game_timers[i].thread \in {"exit", "ran", "in_callback"}
       /\ SetTimer(i, [game_timers[i] EXCEPT !.cancelled = TRUE])
    /\ Goto(t, "del")
    /\ UNCHANGED registered
    /\ UNCHANGED <<Room, sockets>>

\* stop_timer: `del self.active_timers[room_id]` removes whatever is registered now
stop_timer_del(t) ==
    /\ threads[t].pc = "del"
    /\ registered' = [registered EXCEPT ![threads[t].room] = 0]
    /\ AfterStop(t)
    /\ UNCHANGED game_timers
    /\ UNCHANGED <<Room, sockets>>

\* _start_timer: `timer = GameTimer(...)`; `self.active_timers[room_id] = timer`
start_timer_register(t) ==
    /\ threads[t].pc = "create"
    /\ \E i \in TimerIds :
         /\ ~game_timers[i].made
         /\ \A j \in TimerIds : j < i => game_timers[j].made
         /\ SetTimer(i, [NoGameTimer EXCEPT !.made = TRUE,
                                                       !.room = threads[t].room])
         /\ registered' = [registered EXCEPT ![threads[t].room] = i]
         /\ threads' = [threads EXCEPT ![t].pc = "start", ![t].timer = i]
    /\ UNCHANGED <<Room, sockets>>

\* _start_timer: `timer.start()` sets is_running and starts the timer thread
GameTimer_start(t) ==
    /\ threads[t].pc = "start"
    /\ LET i == threads[t].timer IN
       IF game_timers[i].is_running
       THEN UNCHANGED game_timers
       ELSE SetTimer(i, [game_timers[i] EXCEPT !.is_running = TRUE,
                                             !.stop_event = FALSE,
                                             !.thread = "loop"])
    /\ Return(t)
    /\ UNCHANGED registered
    /\ UNCHANGED <<Room, sockets>>

\* _run_timer: stop_event.wait(1) returns True, the thread returns
run_timer_stopped(i) ==
    /\ game_timers[i].thread = "loop"
    /\ game_timers[i].stop_event
    /\ SetTimer(i, [game_timers[i] EXCEPT !.thread = "exit"])
    /\ UNCHANGED <<registered, threads>>
    /\ UNCHANGED <<Room, sockets>>

\* _run_timer: the last wait times out and the room still exists: the loop is over
run_timer_countdown_ends(i) ==
    /\ game_timers[i].thread = "loop"
    /\ ~game_timers[i].stop_event
    /\ active_rooms[game_timers[i].room].exists
    /\ SetTimer(i, [game_timers[i] EXCEPT !.thread = "check"])
    /\ UNCHANGED <<registered, threads>>
    /\ UNCHANGED <<Room, sockets>>

\* _run_timer: `if self.is_running:`
run_timer_check(i) ==
    /\ game_timers[i].thread = "check"
    /\ SetTimer(i, [game_timers[i] EXCEPT !.thread = IF game_timers[i].is_running
                                                   THEN "clear" ELSE "exit"])
    /\ UNCHANGED <<registered, threads>>
    /\ UNCHANGED <<Room, sockets>>

\* _run_timer: `self.is_running = False`
run_timer_clear(i) ==
    /\ game_timers[i].thread = "clear"
    /\ SetTimer(i, [game_timers[i] EXCEPT !.is_running = FALSE, !.thread = "call"])
    /\ UNCHANGED <<registered, threads>>
    /\ UNCHANGED <<Room, sockets>>

\* _run_timer: `self.callback()` is entered
run_timer_callback(i) ==
    /\ game_timers[i].thread = "call"
    /\ SetTimer(i, [game_timers[i] EXCEPT !.thread = "in_callback"])
    /\ UNCHANGED <<registered, threads>>
    /\ UNCHANGED <<Room, sockets>>

\* _run_timer: the callback returns and the thread ends
run_timer_callback_returns(i) ==
    /\ game_timers[i].thread = "in_callback"
    /\ SetTimer(i, [game_timers[i] EXCEPT !.thread = "ran"])
    /\ UNCHANGED <<registered, threads>>
    /\ UNCHANGED <<Room, sockets>>



\* the drawing phase of R1: its drawing timer is registered and counting down
InitTimer ==
    /\ InitDrawing
    /\ game_timers = [i \in TimerIds |->
           IF i = 1 THEN [NoGameTimer EXCEPT !.made = TRUE, !.room = "R1",
                                             !.is_running = TRUE, !.thread = "loop"]
           ELSE NoGameTimer]
    /\ registered = [r \in RoomIds |-> 1]

NextTimer ==
    \/ \E t \in Threads, r \in RoomIds : call_stop_timer(t, r)
    \/ \E t \in Threads, r \in RoomIds : call_start_timer(t, r)
    \/ \E t \in Threads : stop_timer_get(t)
    \/ \E t \in Threads : GameTimer_stop(t)
    \/ \E t \in Threads : GameTimer_stop_join(t)
    \/ \E t \in Threads : stop_timer_del(t)
    \/ \E t \in Threads : start_timer_register(t)
    \/ \E t \in Threads : GameTimer_start(t)
    \/ \E i \in TimerIds : run_timer_stopped(i)
    \/ \E i \in TimerIds : run_timer_countdown_ends(i)
    \/ \E i \in TimerIds : run_timer_check(i)
    \/ \E i \in TimerIds : run_timer_clear(i)
    \/ \E i \in TimerIds : run_timer_callback(i)
    \/ \E i \in TimerIds : run_timer_callback_returns(i)

SpecTimer == InitTimer /\ [][NextTimer]_vars

\* ------------------------------------------ a room deleted under a running timer
\* MemoryService.delete_room, called with _lock free: the room leaves active_rooms
delete_room(r) ==
    /\ mem_lock = "free"
    /\ active_rooms[r].exists
    /\ active_rooms' = [active_rooms EXCEPT ![r] = NoRoom]
    /\ UNCHANGED <<user_sessions, mem_lock, active_timers, phase, emitted, turns_drawn>>
    /\ UNCHANGED fine

\* _run_timer: a wait times out and "Check if room still exists" finds no room: the
\* thread returns
run_timer_room_gone(i) ==
    /\ game_timers[i].thread = "loop"
    /\ ~game_timers[i].stop_event
    /\ ~active_rooms[game_timers[i].room].exists
    /\ SetTimer(i, [game_timers[i] EXCEPT !.thread = "exit"])
    /\ UNCHANGED <<registered, threads>>
    /\ UNCHANGED <<Room, sockets>>

NextDelete ==
    \/ NextTimer
    \/ \E r \in RoomIds : delete_room(r)
    \/ \E i \in TimerIds : run_timer_room_gone(i)

SpecDelete == InitTimer /\ [][NextDelete]_vars

\* ------------------------------------------- handle_guess, statement by statement
\* Each submit_guess event runs handle_guess in a thread of its own; the only lock it
\* meets is MemoryService._lock inside update_room, after the room's dict has been
\* changed in place.

\* handle_guess up to "Check if guess is correct": the checks and final_score. Every
\* outcome but a correct guess ends the handler in this step.
guess_begin(t, u, text, elapsed) ==
    /\ threads[t].pc = "idle"
    /\ user_sessions[u].exists
    /\ LET rid == ResolvedRoom(u, None, TRUE) IN
       /\ rid # None
       /\ get_room(rid).exists
       /\ ScoreOf(active_rooms[rid], u) < MaxScore
       /\ IF CorrectGuess(u, rid, text)
          THEN /\ threads' = [threads EXCEPT ![t] =
                      [Idle EXCEPT !.pc = "award", !.op = "guess", !.user = u,
                                   !.room = rid,
                                   !.score = final_score(
                                       active_rooms[rid].settings.draw_time, elapsed)]]
               /\ emitted' = <<>>
               /\ UNCHANGED <<user_sessions, active_rooms, mem_lock, active_timers,
                              phase, turns_drawn, game_timers, registered, sockets>>
          ELSE Commit(handle_guess(World(rid), u, text, elapsed))

\* "Award points to guesser" and "Track who guessed correctly", in place
guess_award(t) ==
    /\ threads[t].pc = "award"
    /\ LET rid == threads[t].room
           u   == threads[t].user
           gs  == active_rooms[rid].game_state
       IN active_rooms' = [active_rooms EXCEPT
              ![rid].game_state.scores =
                  DictSet(gs.scores, u, ScoreOf(active_rooms[rid], u) + threads[t].score),
              ![rid].game_state.players_guessed = Append(@, u)]
    /\ Goto(t, "update")
    /\ emitted' = <<>>
    /\ UNCHANGED <<user_sessions, mem_lock, active_timers, phase, turns_drawn,
                   game_timers, registered, sockets>>

\* memory_service.update_room under _lock, then the two emits
guess_update_room(t) ==
    /\ threads[t].pc = "update"
    /\ mem_lock = "free"
    /\ LET rid == threads[t].room
           gs  == active_rooms[rid].game_state
       IN emitted' = <<RoomEv("correct_guess", rid, Lower(gs.current_word),
                              threads[t].score, gs.scores),
                       Ev("guess_correct", "room", threads[t].user,
                          Lower(gs.current_word), threads[t].score, <<>>)>>
    /\ Goto(t, "finish")
    /\ UNCHANGED <<user_sessions, active_rooms, mem_lock, active_timers, phase,
                   turns_drawn, game_timers, registered, sockets>>

\* "Check if all players guessed correctly (except drawer)": the turn ends early
guess_finish(t) ==
    /\ threads[t].pc = "finish"
    /\ LET w == World(threads[t].room)
           eligible_players == Remove(w.room.players, threads[t].user)
       IN IF Len(w.room.game_state.players_guessed) >= Len(eligible_players)
          THEN CommitRoom(end_turn(stop_timer(w), TRUE))
          ELSE /\ emitted' = <<>>
               /\ UNCHANGED <<user_sessions, active_rooms, mem_lock, active_timers,
                              phase, turns_drawn>>
    /\ Return(t)
    /\ UNCHANGED <<game_timers, registered, sockets>>

InitConc ==
    /\ InitDrawing
    /\ game_timers = [i \in TimerIds |-> NoGameTimer]
    /\ registered = [r \in RoomIds |-> 0]

NextConc ==
    \/ \E t \in Threads, u \in Users, text \in GuessInputs, e \in ElapsedTenths :
           guess_begin(t, u, text, e)
    \/ \E t \in Threads : guess_award(t)
    \/ \E t \in Threads : guess_update_room(t)
    \/ \E t \in Threads : guess_finish(t)
    \/ \E r \in RoomIds : timer_expires(r)
    \/ \E u \in Users, word \in SelectInputs : select_word(u, word, None)

SpecConc == InitConc /\ [][NextConc]_vars


\* ------------------------------------ one room of three players, from the lobby on
\* alice created R1, bob and carol joined; every game event and leave_room may follow.
\* The history of turns is kept.
GameUsers == {"alice", "bob", "carol"}

\* what the three send: the word of the list or no word, the right or a wrong guess,
\* 15.4 s into the turn
GameWords == {<<"C", "A", "T">>, <<>>}
GameGuesses == {<<"c", "a", "t">>, Dog}
GameElapsed == {154}

LobbyRoom ==
    add_player_to_room(
        add_player_to_room(NewRoom("alice", [rounds |-> 1, draw_time |-> 60,
                                             max_players |-> 3]), "bob"),
        "carol")

InitGame ==
    /\ mem_lock = "free"
    /\ user_sessions = [u \in GameUsers |-> UserData(UsernameOf(u), "R1")]
    /\ active_rooms = [r \in RoomIds |-> LobbyRoom]
    /\ active_timers = [r \in RoomIds |-> NoTimer]
    /\ phase = [r \in RoomIds |-> "waiting"]
    /\ emitted = <<>>
    /\ turns_drawn = [r \in RoomIds |-> History]
    /\ game_timers = [i \in TimerIds |-> NoGameTimer]
    /\ registered = [r \in RoomIds |-> 0]
    /\ threads = [t \in Threads |-> Idle]
    /\ sockets = [s \in Sockets |-> NoSocket]

NextGame ==
    \/ \E u \in GameUsers : start_game(u)
    \/ \E u \in GameUsers, word \in GameWords : select_word(u, word, None)
    \/ \E u \in GameUsers, text \in GameGuesses, e \in GameElapsed :
           submit_guess(u, text, e, None)
    \/ \E r \in RoomIds : turn_timeout(r)
    \/ \E r \in RoomIds : timer_expires(r)
    \/ \E u \in GameUsers, r \in RoomIds : handle_leave_room(u, r)

SpecGame == InitGame /\ [][NextGame]_vars


\* --------------------------------- POST /api/rooms/<id>/join, check and add apart
\* The route reads the room with no lock, answers from what it read, and only then
\* calls add_player_to_room, which takes _lock and checks membership and size but not
\* the status. Socket events run in threads of their own in between.

\* join_room up to "Try to add player": every rejection ends the request here
join_check(t, u, r) ==
    /\ threads[t].pc = "idle"
    /\ user_sessions[u].exists
    /\ LET room == get_room(r)
       IN IF ~room.exists THEN Answer(<<CallerEv("http_404")>>)
          ELSE IF room.status # "waiting"
          THEN Answer(<<CallerEv("GAME_IN_PROGRESS")>>)
          ELSE IF u \in Range(room.players)
          THEN Answer(<<CallerEv("http_200")>>)
          ELSE IF Len(room.players) >= room.max_players
          THEN Answer(<<CallerEv("ROOM_FULL")>>)
          ELSE /\ threads' = [threads EXCEPT ![t] =
                      [Idle EXCEPT !.pc = "add", !.op = "join", !.user = u, !.room = r]]
               /\ emitted' = <<>>
               /\ UNCHANGED <<user_sessions, active_rooms, mem_lock, active_timers,
                              phase, turns_drawn, game_timers, registered, sockets>>

\* join_room from "Try to add player" on: add_player_to_room under _lock, then the
\* session's current_room and the two emits, or JOIN_FAILED
join_add(t) ==
    /\ threads[t].pc = "add"
    /\ mem_lock = "free"
    /\ LET r     == threads[t].room
           u     == threads[t].user
           room  == active_rooms[r]
           added == add_player_to_room(room, u)
       IN IF added # room
          THEN /\ active_rooms' = [active_rooms EXCEPT ![r] = added]
               /\ user_sessions' = [user_sessions EXCEPT ![u].current_room = r]
               /\ emitted' = <<RoomEv("player_joined", r, NoWord, 0, <<>>),
                               RoomEv("room_updated", r, NoWord, 0, <<>>),
                               CallerEv("http_200")>>
          ELSE /\ emitted' = <<CallerEv("JOIN_FAILED")>>
               /\ UNCHANGED <<active_rooms, user_sessions>>
    /\ Return(t)
    /\ UNCHANGED <<mem_lock, active_timers, phase, turns_drawn, game_timers,
                   registered, sockets>>

\* alice created R1 with settings.max_players = 2 and bob joined; carol has a
\* session and no room yet
InitJoin ==
    /\ mem_lock = "free"
    /\ user_sessions = [u \in GameUsers |->
           UserData(UsernameOf(u), IF u = "carol" THEN None ELSE "R1")]
    /\ active_rooms = [r \in RoomIds |->
           add_player_to_room(NewRoom("alice", [rounds |-> 1, draw_time |-> 60,
                                                max_players |-> 2]), "bob")]
    /\ active_timers = [r \in RoomIds |-> NoTimer]
    /\ phase = [r \in RoomIds |-> "waiting"]
    /\ emitted = <<>>
    /\ turns_drawn = [r \in RoomIds |-> NoHistory]
    /\ game_timers = [i \in TimerIds |-> NoGameTimer]
    /\ registered = [r \in RoomIds |-> 0]
    /\ threads = [t \in Threads |-> Idle]
    /\ sockets = [s \in Sockets |-> NoSocket]

NextJoin ==
    \/ \E t \in Threads, u \in GameUsers, r \in RoomIds : join_check(t, u, r)
    \/ \E t \in Threads : join_add(t)
    \/ \E u \in GameUsers : start_game(u)
    \/ \E u \in GameUsers, word \in GameWords : select_word(u, word, None)
    \/ \E u \in GameUsers, text \in GameGuesses, e \in GameElapsed :
           submit_guess(u, text, e, None)
    \/ \E r \in RoomIds : timer_expires(r)

SpecJoin == InitJoin /\ [][NextJoin]_vars


\* ------------------------------------------- the sessions of /api/auth alone

\* the usernames the requests carry
LongName == [i \in 1..21 |-> "x"]
UsernameInputs ==
    {Cat, <<"C", "A", "T">>, <<" ", "c", "a", "t">>, <<"a", "t">>, <<" ">>, LongName}

\* DELETE /api/auth/session, with the cookie of session u
destroy_session(u) ==
    /\ user_sessions' = [user_sessions EXCEPT ![u] = NoUser]
    /\ emitted' = <<CallerEv("http_200")>>
    /\ UNCHANGED <<active_rooms, mem_lock, active_timers, phase, turns_drawn, fine>>

\* the answer of POST /api/auth/validate
username_available(raw) ==
    LET username == Strip(raw)
    IN /\ username # <<>>
       /\ Len(username) >= USERNAME_MIN
       /\ Len(username) <= USERNAME_MAX
       /\ \A v \in DOMAIN user_sessions :
              user_sessions[v].exists
              => Lower(user_sessions[v].username) # Lower(username)

\* POST /api/auth/validate
validate_username(raw) ==
    Answer(<<CallerEv(IF username_available(raw) THEN "valid" ELSE "invalid")>>)

InitAuth ==
    /\ mem_lock = "free"
    /\ user_sessions = [u \in GameUsers |-> NoUser]
    /\ active_rooms = [r \in RoomIds |-> NoRoom]
    /\ active_timers = [r \in RoomIds |-> NoTimer]
    /\ phase = [r \in RoomIds |-> "none"]
    /\ emitted = <<>>
    /\ turns_drawn = [r \in RoomIds |-> NoHistory]
    /\ game_timers = [i \in TimerIds |-> NoGameTimer]
    /\ registered = [r \in RoomIds |-> 0]
    /\ threads = [t \in Threads |-> Idle]
    /\ sockets = [s \in Sockets |-> NoSocket]

NextAuth ==
    \/ \E u \in GameUsers, raw \in UsernameInputs : create_session(u, raw)
    \/ \E u \in GameUsers : destroy_session(u)
    \/ \E raw \in UsernameInputs : validate_username(raw)

SpecAuth == InitAuth /\ [][NextAuth]_vars

\* --------------------------------------- the sockets of a room in its drawing phase

\* the user whose client opens socket s
ClientOf(s) == IF s = "s1" THEN "alice" ELSE "bob"
\* the session cookie a connecting client carries: alice's client is cross-origin
\* and carries none, bob's carries the one create_session gave it
CookieInputs(s) == IF s = "s1" THEN {None} ELSE {ClientOf(s)}
\* the user_id of an authenticate payload: the client's own, or none
AuthInputs(s) == {None, ClientOf(s)}

\* the user_id every handler works with: the socket's authenticated_sockets entry,
\* or else the user_id of its Flask session
Identity(s) ==
    IF sockets[s].authenticated # None THEN sockets[s].authenticated
    ELSE sockets[s].session

\* the sockets an emitted event may reach, for the events sent to a socket.io room
\* or by a walk over authenticated_sockets: a socket is in the room named by its
\* own sid and in the rooms join_room has entered it into
ReceiversIn(e, socks, rooms) ==
    CASE e.via \in {"room", "room_except_self"} ->
             {s \in Sockets : socks[s].connected /\ (e.to = s \/ e.to \in socks[s].rooms)}
      [] e.via = "sockets_of" ->
             {s \in Sockets : socks[s].connected /\ socks[s].authenticated = e.to}
      [] e.via = "sockets_of_others" ->
             {s \in Sockets :
                 /\ socks[s].connected
                 /\ socks[s].authenticated \in Range(rooms[e.to].players)
                 /\ socks[s].authenticated # rooms[e.to].game_state.current_drawer}
      [] OTHER -> {}

\* socket event connect
handle_connect(s, cookie) ==
    /\ ~sockets[s].connected
    /\ sockets' = [sockets EXCEPT ![s] =
           [connected |-> TRUE, authenticated |-> None, session |-> cookie,
            session_username |-> IF cookie = None THEN NoWord ELSE UsernameOf(cookie),
            rooms |-> {}]]
    /\ emitted' = <<CallerEv("connection_confirmed")>>
    /\ UNCHANGED <<user_sessions, active_rooms, mem_lock, active_timers, phase,
                   turns_drawn, game_timers, registered, threads>>

\* a disconnect that takes the user out of the room, as a leave_room would
handle_disconnect_leaving(s) ==
    /\ sockets[s].connected
    /\ sockets' = [sockets EXCEPT ![s] = NoSocket]
    /\ LET user_id == Identity(s)
           rid     == IF user_id # None /\ user_sessions[user_id].exists
                      THEN user_sessions[user_id].current_room ELSE None
       IN IF rid # None /\ active_rooms[rid].exists
          THEN /\ active_rooms' = [active_rooms EXCEPT ![rid] =
                      remove_player_from_room(@, user_id)]
               /\ user_sessions' = [user_sessions EXCEPT ![user_id].current_room = None]
               /\ emitted' = <<RoomEv("player_left", rid, NoWord, 0, <<>>)>>
          ELSE /\ emitted' = <<>>
               /\ UNCHANGED <<active_rooms, user_sessions>>
    /\ UNCHANGED <<mem_lock, active_timers, phase, turns_drawn, game_timers,
                   registered, threads>>

\* socket event disconnect
handle_disconnect(s) ==
    /\ sockets[s].connected
    /\ sockets' = [sockets EXCEPT ![s] = NoSocket]
    /\ LET user_id == Identity(s)
       IN emitted' =
              IF user_id # None /\ user_sessions[user_id].exists
                 /\ user_sessions[user_id].current_room # None
              THEN <<RoomEv("player_disconnected", user_sessions[user_id].current_room,
                            NoWord, 0, <<>>)>>
              ELSE <<>>
    /\ UNCHANGED <<user_sessions, active_rooms, mem_lock, active_timers, phase,
                   turns_drawn, game_timers, registered, threads>>

\* socket event authenticate
handle_authenticate(s, uid) ==
    /\ sockets[s].connected
    /\ LET user_id == IF uid # None THEN uid ELSE sockets[s].session
       IN IF user_id = None
             \/ (~user_sessions[user_id].exists /\ sockets[s].session_username = NoWord)
          THEN /\ emitted' = <<CallerEv("authentication_failed")>>
               /\ UNCHANGED <<user_sessions, sockets>>
          ELSE /\ user_sessions' =
                      IF user_sessions[user_id].exists THEN user_sessions
                      ELSE [user_sessions EXCEPT ![user_id] =
                                UserData(sockets[s].session_username, None)]
               /\ sockets' = [sockets EXCEPT ![s].authenticated = user_id,
                                             ![s].session = user_id]
               /\ emitted' = <<CallerEv("authentication_success")>>
    /\ UNCHANGED <<active_rooms, mem_lock, active_timers, phase, turns_drawn,
                   game_timers, registered, threads>>

\* socket event join_room arriving on socket s
on_join_room(s, rid) ==
    /\ sockets[s].connected
    /\ LET u == Identity(s) IN
       IF u = None THEN Answer(<<ErrorEv>>)
       ELSE /\ user_sessions[u].exists
            /\ IF rid = None \/ ~get_room(rid).exists
                  \/ u \notin Range(get_room(rid).players)
               THEN Answer(<<ErrorEv>>)
               ELSE /\ sockets' = [sockets EXCEPT ![s].rooms = @ \cup {rid}]
                    /\ user_sessions' = [user_sessions EXCEPT ![u].current_room = rid]
                    /\ emitted' = <<CallerEv("room_joined"),
                                    RoomEv("player_joined", rid, NoWord, 0, <<>>)>>
                    /\ UNCHANGED <<active_rooms, mem_lock, active_timers, phase,
                                   turns_drawn, game_timers, registered, threads>>

\* socket event start_game arriving on socket s
on_start_game(s) ==
    /\ sockets[s].connected
    /\ IF Identity(s) = None THEN Answer(<<ErrorEv>>)
       ELSE start_game(Identity(s))

\* socket event select_word arriving on socket s
on_select_word(s, word, fb) ==
    /\ sockets[s].connected
    /\ IF Identity(s) = None THEN Answer(<<ErrorEv>>)
       ELSE select_word(Identity(s), word, fb)

\* socket event submit_guess arriving on socket s
on_submit_guess(s, text, elapsed, fb) ==
    /\ sockets[s].connected
    /\ IF Identity(s) = None THEN Answer(<<ErrorEv>>)
       ELSE submit_guess(Identity(s), text, elapsed, fb)

\* socket event turn_timeout arriving on socket s: the handler reads neither
\* authenticated_sockets nor the session
on_turn_timeout(s, rid) ==
    /\ sockets[s].connected
    /\ turn_timeout(rid)

\* alice draws and bob guesses in R1, each on an authenticated socket that has
\* joined the room
InitSocket ==
    /\ mem_lock = "free"
    /\ user_sessions = DrawingWorld.users
    /\ active_rooms = [r \in RoomIds |-> DrawingWorld.room]
    /\ active_timers = [r \in RoomIds |-> DrawingWorld.timer]
    /\ phase = [r \in RoomIds |-> DrawingWorld.phase]
    /\ emitted = DrawingWorld.out
    /\ turns_drawn = [r \in RoomIds |-> DrawingWorld.drawn]
    /\ game_timers = [i \in TimerIds |-> NoGameTimer]
    /\ registered = [r \in RoomIds |-> 0]
    /\ threads = [t \in Threads |-> Idle]
    /\ sockets = [s \in Sockets |->
           [connected |-> TRUE,
            authenticated |-> IF s = "s1" THEN "alice" ELSE "bob",
            session |-> IF s = "s1" THEN "alice" ELSE "bob",
            session_username |-> NoWord,
            rooms |-> {"R1"}]]

NextSocket ==
    \/ \E s \in Sockets : \E cookie \in CookieInputs(s) : handle_connect(s, cookie)
    \/ \E s \in Sockets : handle_disconnect(s)
    \/ \E s \in Sockets : \E uid \in AuthInputs(s) : handle_authenticate(s, uid)
    \/ \E s \in Sockets, rid \in PayloadRooms : on_join_room(s, rid)
    \/ \E s \in Sockets : on_start_game(s)
    \/ \E s \in Sockets, word \in GameWords : on_select_word(s, word, None)
    \/ \E s \in Sockets, text \in GameGuesses, e \in GameElapsed :
           on_submit_guess(s, text, e, None)
    \/ \E s \in Sockets, rid \in PayloadRooms : on_turn_timeout(s, rid)
    \/ \E r \in RoomIds : timer_expires(r)

SpecSocket == InitSocket /\ [][NextSocket]_vars

\* ------------------------------------------------- the drawing events of a room

\* the three stroke events, and whether the payload passes the handler's validation
\* (coordinates, brush size, tool)
DrawTypes == {"start", "move", "end"}

\* emit('draw_data', {type, ...}, room=room_id, include_self=False)
DrawData(r, type) == Ev("draw_data", "room_except_self", r, <<type>>, 0, <<>>)

\* socket events draw_start, draw_move, draw_end from the socket of user u; draw_end
\* validates nothing of its payload
handle_draw(u, type, valid) ==
    /\ user_sessions[u].exists
    /\ LET room_id == user_sessions[u].current_room
           room    == get_room(room_id)
       IN IF room_id = None THEN Answer(<<ErrorEv>>)
          ELSE IF ~room.exists THEN Answer(<<ErrorEv>>)
          ELSE IF room.game_state.current_drawer # None
                  /\ room.game_state.current_drawer # u
          THEN Answer(<<ErrorEv>>)
          ELSE IF type # "end" /\ ~valid THEN Answer(<<ErrorEv>>)
          ELSE Answer(<<DrawData(room_id, type)>>)

NextDraw ==
    \/ \E u \in GameUsers, type \in DrawTypes, valid \in BOOLEAN :
           handle_draw(u, type, valid)
    \/ \E u \in GameUsers, r \in RoomIds : join_room(u, r)
    \/ \E u \in GameUsers : start_game(u)
    \/ \E u \in GameUsers, word \in GameWords : select_word(u, word, None)
    \/ \E u \in GameUsers, text \in GameGuesses, e \in GameElapsed :
           submit_guess(u, text, e, None)
    \/ \E r \in RoomIds : timer_expires(r)

\* from the lobby of R1: alice and bob are in, carol has a session and no room
SpecDraw == InitJoin /\ [][NextDraw]_vars

\* ------------------------------------------------------ the progressive hints

\* str.upper() on the characters the hint words use
UpperChar(c) ==
    CASE c = "c" -> "C" [] c = "a" -> "A" [] c = "t" -> "T" [] c = "b" -> "B"
      [] c = "e" -> "E" [] c = "r" -> "R" [] c = "s" -> "S" [] c = "l" -> "L"
      [] c = "p" -> "P" [] c = "h" -> "H" [] c = "n" -> "N"
      [] OTHER -> c

\* words of the fallback lists, as select_word may have stored them
HintWords ==
    {Cat, <<"C", "A", "T">>, <<"b", "e", "e">>, <<"t", "r", "e", "e">>,
     <<"s", "t", "a", "r">>, <<"e", "l", "e", "p", "h", "a", "n", "t">>}

\* ' '.join(hint)
RECURSIVE JoinSpaces(_)
JoinSpaces(hint) ==
    IF Len(hint) <= 1 THEN hint
    ELSE <<Head(hint), " ">> \o JoinSpaces(Tail(hint))

\* WordService.get_word_hint(word, revealed_positions), positions counted from 1
get_word_hint(word, revealed_positions) ==
    IF word = <<>> THEN <<>>
    ELSE JoinSpaces([i \in 1..Len(word) |->
             IF Lower(word)[i] = " " THEN " "
             ELSE IF i \in Range(revealed_positions) THEN UpperChar(Lower(word)[i])
             ELSE "_"])

\* [i for i, char in enumerate(word) if char != ' '], counted from 1
RECURSIVE letter_positions_from(_, _)
letter_positions_from(word, i) ==
    IF i > Len(word) THEN <<>>
    ELSE (IF word[i] # " " THEN <<i>> ELSE <<>>) \o letter_positions_from(word, i + 1)

Min(a, b) == IF a < b THEN a ELSE b

\* a reveal order of first, middle, last letter
revealed_positions_middle_second(word, elapsed_seconds) ==
    LET letters_to_reveal == Min(MAX_REVEALS,
                                 ((elapsed_seconds - HINT_START) \div HINT_EVERY) + 1)
        letter_positions  == letter_positions_from(word, 1)
        n == Len(letter_positions)
    IN (IF letters_to_reveal >= 1 /\ n >= 1 THEN <<letter_positions[1]>> ELSE <<>>)
       \o (IF letters_to_reveal >= 2 /\ n >= 3
           THEN <<letter_positions[(n \div 2) + 1]>> ELSE <<>>)
       \o (IF letters_to_reveal >= 3 /\ n >= 2 THEN <<letter_positions[n]>> ELSE <<>>)

\* WordService.get_progressive_hint "Strategically reveal letters": the positions
\* in the order they are appended
revealed_positions(word, elapsed_seconds) ==
    LET letters_to_reveal == Min(MAX_REVEALS,
                                 ((elapsed_seconds - HINT_START) \div HINT_EVERY) + 1)
        letter_positions  == letter_positions_from(word, 1)
        n == Len(letter_positions)
    IN (IF letters_to_reveal >= 1 /\ n >= 1 THEN <<letter_positions[1]>> ELSE <<>>)
       \o (IF letters_to_reveal >= 2 /\ n >= 2 THEN <<letter_positions[n]>> ELSE <<>>)
       \o (IF letters_to_reveal >= 3 /\ n >= 3
           THEN <<letter_positions[(n \div 2) + 1]>> ELSE <<>>)

\* WordService.get_progressive_hint(word, elapsed_seconds)
get_progressive_hint(word, elapsed_seconds) ==
    IF word = <<>> \/ elapsed_seconds < HINT_START THEN Underscores(word)
    ELSE IF letter_positions_from(word, 1) = <<>> THEN word
    ELSE get_word_hint(word, revealed_positions(word, elapsed_seconds))

\* send_progressive_hints, run by its threading.Timer when elapsed whole seconds
\* have passed since turn_start_time
send_progressive_hints(r, elapsed) ==
    /\ active_rooms[r].exists
    /\ active_rooms[r].game_state.current_word # NoWord
    /\ elapsed < active_rooms[r].settings.draw_time
    /\ \A i \in 1..Len(emitted) : emitted[i].ev = "hint_update" => emitted[i].n <= elapsed
    /\ Answer(<<RoomEv("hint_update", r,
                       get_progressive_hint(active_rooms[r].game_state.current_word,
                                            elapsed),
                       elapsed, <<>>)>>)

\* a room in its drawing phase, its current word any of the hint words
InitHint ==
    /\ mem_lock = "free"
    /\ user_sessions = DrawingWorld.users
    /\ \E word \in HintWords :
           active_rooms = [r \in RoomIds |->
               [DrawingWorld.room EXCEPT !.game_state.current_word = word,
                                         !.game_state.words_used = <<word>>]]
    /\ active_timers = [r \in RoomIds |-> DrawingWorld.timer]
    /\ phase = [r \in RoomIds |-> DrawingWorld.phase]
    /\ emitted = DrawingWorld.out
    /\ turns_drawn = [r \in RoomIds |-> DrawingWorld.drawn]
    /\ game_timers = [i \in TimerIds |-> NoGameTimer]
    /\ registered = [r \in RoomIds |-> 0]
    /\ threads = [t \in Threads |-> Idle]
    /\ sockets = [s \in Sockets |-> NoSocket]

NextHint ==
    \E r \in RoomIds, elapsed \in 0..MaxHintSeconds : send_progressive_hints(r, elapsed)

SpecHint == InitHint /\ [][NextHint]_vars

\* ------------------------------------------- a game whose players may log out
\* alice's room with bob in it, waiting, with DELETE /api/auth/session open to its
\* players: the session goes, the player stays in the room's players and scores.
\* a game event of a user whose session is gone: "Not in a room"
event_without_session(u) ==
    /\ ~user_sessions[u].exists
    /\ Answer(<<ErrorEv>>)

InitLogout ==
    /\ mem_lock = "free"
    /\ user_sessions = [u \in Users |-> UserData(UsernameOf(u), "R1")]
    /\ active_rooms = [r \in RoomIds |->
           add_player_to_room(NewRoom("alice", [rounds |-> 1, draw_time |-> 60,
                                                max_players |-> 2]), "bob")]
    /\ active_timers = [r \in RoomIds |-> NoTimer]
    /\ phase = [r \in RoomIds |-> "waiting"]
    /\ emitted = <<>>
    /\ turns_drawn = [r \in RoomIds |-> NoHistory]
    /\ game_timers = [i \in TimerIds |-> NoGameTimer]
    /\ registered = [r \in RoomIds |-> 0]
    /\ threads = [t \in Threads |-> Idle]
    /\ sockets = [s \in Sockets |-> NoSocket]

NextLogout ==
    \/ \E u \in Users : destroy_session(u)
    \/ \E u \in Users : event_without_session(u)
    \/ \E u \in Users : start_game(u)
    \/ \E u \in Users, word \in SelectInputs : select_word(u, word, None)
    \/ \E u \in Users, text \in GuessInputs, e \in ElapsedTenths :
           submit_guess(u, text, e, None)
    \/ \E r \in RoomIds : timer_expires(r)

SpecLogout == InitLogout /\ [][NextLogout]_vars

\* ------------------------------------- one turn and its progressive hint timer
\* A room in its drawing phase with the threading.Timer chain that
\* _start_drawing_phase started for the turn. Time is read off the hint thread:
\* `due` is the whole second since the turn started at which the thread wakes,
\* `ended` the moment (tenths of a second since the turn started, 0 while the turn
\* runs) at which the turn ended. The drawing timer runs draw_time seconds, the
\* results timer RESULTS_SECONDS, the hint thread sleeps 10 seconds at a time.
HintThread(r, word, due, ended) ==
    [pc |-> "hint_timer", op |-> "send_progressive_hints", user |-> None, room |-> r,
     score |-> 0, timer |-> 0, word |-> word, due |-> due, ended |-> ended]

\* timer_service.start_results_timer(room_id, 5)
RESULTS_SECONDS == 5

\* how long after the hint thread's last wake-up a guess arrives, in tenths of a
\* second
GuessDelays == {20, 50, 54}

HintPending(t) == threads[t].pc = "hint_timer"

ResultsRunning(r) ==
    /\ active_timers[r].exists
    /\ active_timers[r].is_running
    /\ active_timers[r].callback = "results_timeout"

\* the last turn of the game: bob guessed alice's word, the results timer expired
\* and bob selected CAT
LastTurnWorld ==
    LET w1 == handle_guess([DrawingWorld EXCEPT !.out = <<>>], "bob",
                           <<"c", "a", "t">>, 154)
        w2 == start_next_turn_or_round([w1 EXCEPT !.out = <<>>,
                                                  !.timer.is_running = FALSE])
    IN handle_select_word([w2 EXCEPT !.out = <<>>], "bob", <<"C", "A", "T">>)

\* send_progressive_hints, run by hint thread t when it wakes: while the results
\* timer of the turn runs, the thread wakes only if its moment comes first
hint_timer_fires(t) ==
    LET h == threads[t]
        r == h.room
    IN /\ HintPending(t)
       /\ (ResultsRunning(r) /\ h.ended # 0)
              => h.due * 10 <= h.ended + RESULTS_SECONDS * 10
       /\ IF ~active_rooms[r].exists
             \/ active_rooms[r].game_state.current_word # h.word
          THEN /\ emitted' = <<>>
               /\ threads' = [threads EXCEPT ![t] = Idle]
          ELSE IF h.due < active_rooms[r].settings.draw_time
          THEN /\ emitted' = <<RoomEv("hint_update", r,
                                      get_progressive_hint(h.word, h.due), h.due,
                                      <<>>)>>
               /\ threads' = [threads EXCEPT ![t] =
                                  IF h.due + 10 < active_rooms[r].settings.draw_time
                                  THEN [h EXCEPT !.due = @ + 10]
                                  ELSE Idle]
          ELSE /\ emitted' = <<>>
               /\ threads' = [threads EXCEPT ![t] = Idle]
       /\ UNCHANGED <<user_sessions, active_rooms, mem_lock, active_timers, phase,
                      turns_drawn, game_timers, registered, sockets>>

\* socket event submit_guess while the turn of hint thread t runs, `delay` after the
\* thread's last wake-up; a guess that ends the turn fixes the turn's end
hinted_submit_guess(t, u, text, delay) ==
    LET h   == threads[t]
        e   == (h.due - 10) * 10 + delay
        rid == user_sessions[u].current_room
    IN /\ HintPending(t)
       /\ h.ended = 0
       /\ user_sessions[u].exists
       /\ rid = h.room
       /\ active_rooms[rid].exists
       /\ LET w == handle_guess(World(rid), u, text, e)
          IN /\ CommitRoom(w)
             /\ threads' = [threads EXCEPT ![t] =
                               IF \E i \in 1..Len(w.out) : w.out[i].ev = "turn_ended"
                               THEN [h EXCEPT !.ended = e]
                               ELSE h]
       /\ UNCHANGED <<game_timers, registered, sockets>>

\* the drawing timer and the results timer of the turn reach their expiry; the
\* drawing timer outlasts every wake-up of the hint thread, the results timer
\* expires only if its moment comes before the thread's
hinted_timer_expires(t, r) ==
    /\ active_timers[r].exists
    /\ active_timers[r].callback \in {"end_turn", "results_timeout"}
    /\ active_timers[r].callback = "end_turn" => ~HintPending(t)
    /\ (active_timers[r].callback = "results_timeout" /\ HintPending(t)
        /\ threads[t].ended # 0)
           => threads[t].due * 10 >= threads[t].ended + RESULTS_SECONDS * 10
    /\ timer_expires(r)

InitHintTimer ==
    /\ mem_lock = "free"
    /\ \E w \in {DrawingWorld, LastTurnWorld} :
           /\ user_sessions = w.users
           /\ active_rooms = [r \in RoomIds |-> w.room]
           /\ active_timers = [r \in RoomIds |-> w.timer]
           /\ phase = [r \in RoomIds |-> w.phase]
           /\ emitted = w.out
           /\ turns_drawn = [r \in RoomIds |-> w.drawn]
           /\ threads = [t \in Threads |->
                            IF t = "t1"
                            THEN HintThread(w.id, w.room.game_state.current_word, 10, 0)
                            ELSE Idle]
    /\ game_timers = [i \in TimerIds |-> NoGameTimer]
    /\ registered = [r \in RoomIds |-> 0]
    /\ sockets = [s \in Sockets |-> NoSocket]

NextHintTimer ==
    \/ hint_timer_fires("t1")
    \/ \E u \in Users, text \in GuessInputs, delay \in GuessDelays :
           hinted_submit_guess("t1", u, text, delay)
    \/ \E r \in RoomIds : hinted_timer_expires("t1", r)

SpecHintTimer == InitHintTimer /\ [][NextHintTimer]_vars

\* ------------------------------------------- a game that only its timers drive
\* The waiting room of alice and bob. Its clients may send start_game, select_word
\* and submit_guess, or nothing at all; a GameTimer thread that was started runs
\* to its expiry, so only the timers' steps are fair. The clients' select_word
\* leaves the last place of the bounded words_used to the timers' auto-selection,
\* so that no bound ever keeps a running timer from expiring.
NextFair ==
    \/ \E u \in Users : start_game(u)
    \/ \E u \in Users, word \in SelectInputs :
           /\ \A r \in RoomIds :
                  active_rooms[r].exists
                      => Len(active_rooms[r].game_state.words_used) < MaxWordsUsed - 1
           /\ select_word(u, word, None)
    \/ \E u \in Users, text \in GuessInputs, e \in ElapsedTenths :
           submit_guess(u, text, e, None)
    \/ \E r \in RoomIds : timer_expires(r)

SpecFair ==
    /\ InitLogout
    /\ [][NextFair]_vars
    /\ \A r \in RoomIds : WF_vars(timer_expires(r))

\* -------------------------------------------------- one GameTimer's countdown
\* A GameTimer of room R1 from start() to its expiry, one loop pass of _run_timer
\* per step. `elapsed` is time.time() - start_time in tenths of a second: each
\* stop_event.wait(1) that times out takes a second, or a tenth more.
Durations == {3, 5, 10} \cup DrawTimes

\* the GameTimer after start(): `remaining` is the loop variable, `sent` counts the
\* timer_update events
CountingTimer(r, d) ==
    [made |-> TRUE, room |-> r, is_running |-> TRUE, stop_event |-> FALSE,
     thread |-> "loop", cancelled |-> FALSE, duration |-> d, remaining |-> d,
     elapsed |-> 0, sent |-> 0]

\* GameTimer.get_remaining_time
GameTimer_get_remaining_time(g) ==
    IF ~g.is_running THEN 0
    ELSE IF g.duration - (g.elapsed \div 10) > 0 THEN g.duration - (g.elapsed \div 10)
    ELSE 0

\* TimerService.get_remaining_time(room_id)
get_remaining_time(r) ==
    IF registered[r] # 0 THEN GameTimer_get_remaining_time(game_timers[registered[r]])
    ELSE 0

\* _run_timer, one pass of the loop: the wait times out, timer_update goes to the
\* room with the loop variable, and the thread looks for the room
run_timer_tick(i, late) ==
    LET g == game_timers[i] IN
    /\ g.made
    /\ g.thread = "loop"
    /\ ~g.stop_event
    /\ g.remaining > 0
    /\ g.elapsed + late - 10 * g.sent <= MaxDrift
    /\ emitted' = <<RoomEv("timer_update", g.room, NoWord, g.remaining, <<>>)>>
    /\ SetTimer(i, [g EXCEPT !.elapsed = @ + 10 + late,
                             !.sent = @ + 1,
                             !.remaining = @ - 1,
                             !.thread = IF ~active_rooms[g.room].exists THEN "exit"
                                        ELSE IF g.remaining = 1 THEN "check"
                                        ELSE "loop"])
    /\ UNCHANGED <<user_sessions, active_rooms, mem_lock, active_timers, phase,
                   turns_drawn, registered, threads, sockets>>

\* _run_timer after the loop: is_running is cleared and the callback runs
run_timer_expires(i) ==
    LET g == game_timers[i] IN
    /\ g.made
    /\ g.thread = "check"
    /\ emitted' = <<>>
    /\ SetTimer(i, [g EXCEPT !.is_running = FALSE,
                             !.thread = IF g.is_running THEN "ran" ELSE "exit"])
    /\ UNCHANGED <<user_sessions, active_rooms, mem_lock, active_timers, phase,
                   turns_drawn, registered, threads, sockets>>

InitCountdown ==
    /\ InitDrawing
    /\ \E d \in Durations :
           game_timers = [i \in TimerIds |->
               IF i = 1 THEN CountingTimer("R1", d) ELSE NoGameTimer]
    /\ registered = [r \in RoomIds |-> 1]

NextCountdown ==
    \/ \E i \in TimerIds, late \in {0, 1} : run_timer_tick(i, late)
    \/ \E i \in TimerIds : run_timer_expires(i)

SpecCountdown == InitCountdown /\ [][NextCountdown]_vars

\* ------------------------------------------------------------------- claims
Playing(r) == active_rooms[r].exists /\ active_rooms[r].status = "playing"

\* C1: in every reachable state of a room with status = playing, the key set of
\* game_state.scores equals the set of players
C1_ScoresKeysArePlayers ==
    \A r \in RoomIds :
        Playing(r) =>
            DOMAIN active_rooms[r].game_state.scores = Range(active_rooms[r].players)

\* C2: in every reachable state of a room with status = playing, current_drawer is
\* one of the room's players
C2_DrawerInPlayers ==
    \A r \in RoomIds :
        Playing(r) =>
            active_rooms[r].game_state.current_drawer \in Range(active_rooms[r].players)

\* C3: for every room in every reachable state, host is a member of players or
\* players is empty
C3_HostInPlayers ==
    \A r \in RoomIds :
        active_rooms[r].exists =>
            \/ active_rooms[r].host \in Range(active_rooms[r].players)
            \/ active_rooms[r].players = <<>>

\* C3 witness: a player has just left a room that still has players, and the room's
\* host is the player now first in players
C3_Witness ==
    \E r \in RoomIds :
        /\ active_rooms[r].exists
        /\ \E i \in 1..Len(emitted) : emitted[i].ev = "player_left" /\ emitted[i].to = r
        /\ active_rooms[r].players # <<>>
        /\ active_rooms[r].host = active_rooms[r].players[1]


ErrorEmitted(out) == \E i \in 1..Len(out) : out[i].ev = "error"

\* the fields of the turn that select_word writes, and the room's timer
TurnFields(r) ==
    <<active_rooms[r].game_state.current_word,
      active_rooms[r].game_state.turn_start_time,
      active_rooms[r].game_state.players_guessed,
      active_rooms[r].game_state.words_used,
      active_timers[r]>>

\* C5: select_word is accepted (current_word set, drawing phase entered) if and only
\* if the caller is current_drawer, the room is in the word-selection phase and the
\* word is valid; otherwise the caller gets an error and current_word,
\* turn_start_time, players_guessed, words_used and the room timer are unchanged
C5_SelectWordAcceptedIff ==
    [][\A u \in Users, word \in SelectInputs, fb \in RoomIds \cup {None} :
         select_word(u, word, fb) =>
           LET rid == ResolvedRoom(u, fb, TRUE)
               authorized ==
                   /\ rid # None
                   /\ get_room(rid).exists
                   /\ active_rooms[rid].game_state.current_drawer = u
                   /\ phase[rid] = "word_selection"
                   /\ validate_word(word)
           IN IF authorized
              THEN /\ active_rooms'[rid].game_state.current_word = word
                   /\ phase'[rid] = "drawing"
              ELSE /\ ErrorEmitted(emitted')
                   /\ \A r \in RoomIds :
                          active_rooms[r].exists => TurnFields(r)' = TurnFields(r)
      ]_vars

\* C6: after submit_guess with the correct word the guesser's score increases by
\* 100 + 5*floor(time_remaining), time_remaining = max(0, draw_time - elapsed), and
\* no other guesser's score changes (the drawer's turn-end bonus apart)
C6_GuessScoreFloor ==
    [][\A u \in Users, text \in GuessInputs, e \in ElapsedTenths,
          fb \in RoomIds \cup {None} :
         (submit_guess(u, text, e, fb) /\ CorrectGuess(u, ResolvedRoom(u, fb, TRUE), text))
         =>
           LET rid == ResolvedRoom(u, fb, TRUE)
               remaining == TimeRemainingTenths(active_rooms[rid].settings.draw_time, e)
           IN /\ ScoreOf(active_rooms'[rid], u) - ScoreOf(active_rooms[rid], u)
                    = 100 + 5 * (remaining \div 10)
              /\ \A p \in Users \ {u, active_rooms[rid].game_state.current_drawer} :
                     ScoreOf(active_rooms'[rid], p) = ScoreOf(active_rooms[rid], p)
      ]_vars

\* C7: submit_guess is processed only when the caller is one of the room's players,
\* is not current_drawer and is not in players_guessed; otherwise the caller receives
\* an error and scores and players_guessed are unchanged
C7_GuessAuthorized ==
    [][\A u \in Users, text \in GuessInputs, e \in ElapsedTenths,
          fb \in RoomIds \cup {None} :
         submit_guess(u, text, e, fb) =>
           LET rid == ResolvedRoom(u, fb, TRUE)
               authorized ==
                   /\ rid # None
                   /\ get_room(rid).exists
                   /\ u \in Range(active_rooms[rid].players)
                   /\ active_rooms[rid].game_state.current_drawer # u
                   /\ u \notin Range(active_rooms[rid].game_state.players_guessed)
           IN ~authorized =>
                 /\ ErrorEmitted(emitted')
                 /\ \A r \in RoomIds :
                        active_rooms[r].exists =>
                          /\ active_rooms'[r].game_state.scores
                                = active_rooms[r].game_state.scores
                          /\ active_rooms'[r].game_state.players_guessed
                                = active_rooms[r].game_state.players_guessed
      ]_vars

\* C10: start_game is accepted only when the caller is the room's host, the room's
\* status is waiting and the room has at least 2 players; in every other case the
\* caller gets an error and the room state is unchanged
C10_StartGameAuthorized ==
    [][\A u \in Users :
         start_game(u) =>
           LET rid == ResolvedRoom(u, None, FALSE)
               authorized ==
                   /\ rid # None
                   /\ get_room(rid).exists
                   /\ active_rooms[rid].host = u
                   /\ active_rooms[rid].status = "waiting"
                   /\ Len(active_rooms[rid].players) >= 2
           IN ~authorized =>
                 /\ ErrorEmitted(emitted')
                 /\ active_rooms' = active_rooms
                 /\ active_timers' = active_timers
      ]_vars


\* the handler threads that are inside an operation on room r
InOperation(r) == {t \in Threads : threads[t].pc # "idle" /\ threads[t].room = r}

\* C4: no two operations on the same room interleave: while one thread is between
\* its read of the room and its last write, no other thread is inside an operation
\* on that room
C4_NoInterleaving ==
    \A r \in RoomIds : Cardinality(InOperation(r)) <= 1

\* the GameTimer objects of room r whose thread is alive and still due to fire
RunningTimers(r) ==
    {i \in TimerIds : /\ game_timers[i].made
                      /\ game_timers[i].room = r
                      /\ game_timers[i].is_running
                      /\ game_timers[i].thread \in {"loop", "check", "clear"}}

\* C8: at most one timer thread is running per room at any time, also when two
\* threads start a timer for the room concurrently
C8_OneRunningTimer ==
    \A r \in RoomIds : Cardinality(RunningTimers(r)) <= 1

\* C9: once GameTimer.stop has returned for a timer (stop_timer, or the stop that
\* starting a new timer begins with), that timer's callback is never entered
C9_NoCallbackAfterCancel ==
    [][\A i \in TimerIds :
         run_timer_callback(i) => ~game_timers[i].cancelled]_vars


Emitted(out, name) == \E i \in 1..Len(out) : out[i].ev = name

\* C11: when the word-selection timer expires, the engine enters DRAWING through the
\* entry path of select_word: drawing_started is emitted to the room, the hint
\* scheduler is started, and the drawing timer started is one whose expiry ends the
\* turn on the server
C11_AutoSelectSameEntryPath ==
    [][\A r \in RoomIds :
         (/\ timer_expires(r)
          /\ active_timers[r].callback = "word_selection_timeout"
          /\ mem_lock = "free")
         => /\ Emitted(emitted', "drawing_started")
            /\ Emitted(emitted', "hint_timer_started")
            /\ active_timers'[r].exists
            /\ active_timers'[r].timer_type = "drawing"
            /\ active_timers'[r].callback = "end_turn"
      ]_vars


\* the turns of the current game in which p was current_drawer and the drawing phase
\* was reached
TurnsDrawnBy(r, p) == {t \in turns_drawn[r].turns : t.drawer = p}

\* C12: when a game ends (game_ended emitted), each player of the room was
\* current_drawer for exactly settings.rounds turns that reached the drawing phase
C12_EachPlayerDrawsRoundsTimes ==
    \A r \in RoomIds :
        (/\ active_rooms[r].exists
         /\ active_rooms[r].status = "ended"
         /\ \E i \in 1..Len(emitted) : emitted[i].ev = "game_ended" /\ emitted[i].to = r)
        => \A p \in Range(active_rooms[r].players) :
               Cardinality(TurnsDrawnBy(r, p)) = active_rooms[r].settings.rounds


\* C13: a turn_ended emitted with all_guessed = true carries the scores with the
\* drawer's bonus already added, that is, the scores the room has after the step
C13_BonusBeforeTurnEnded ==
    \A i \in 1..Len(emitted) :
        (emitted[i].ev = "turn_ended" /\ emitted[i].n = 1)
        => emitted[i].scores = active_rooms[emitted[i].to].game_state.scores


\* the step emitted turn_ended with all_guessed = true to room r
TurnEndedAllGuessed(out, r) ==
    \E i \in 1..Len(out) : out[i].ev = "turn_ended" /\ out[i].to = r /\ out[i].n = 1

\* C14: a correct guess stops the drawing timer and ends the turn with all_guessed =
\* true exactly when, after it, players_guessed holds as many players as the room has
\* players other than current_drawer; otherwise the room's timer keeps running
C14_TurnEndsWhenAllGuessed ==
    [][\A u \in GameUsers, text \in GameGuesses, e \in GameElapsed :
         (/\ submit_guess(u, text, e, None)
          /\ CorrectGuess(u, ResolvedRoom(u, None, TRUE), text)
          /\ mem_lock = "free")
         =>
           LET rid == ResolvedRoom(u, None, TRUE)
               others == Range(active_rooms[rid].players)
                             \ {active_rooms[rid].game_state.current_drawer}
               all_guessed ==
                   Len(active_rooms'[rid].game_state.players_guessed)
                       = Cardinality(others)
           IN IF all_guessed
              THEN /\ TurnEndedAllGuessed(emitted', rid)
                   /\ active_timers'[rid].timer_type = "results"
              ELSE /\ ~TurnEndedAllGuessed(emitted', rid)
                   /\ active_timers'[rid] = active_timers[rid]
      ]_vars


\* C15: removing a player from a room terminates with the registry lock free: when
\* others remain the room stays, with players[0] promoted if the host left; when the
\* last player left the room is deleted from the registry
C15_RemovePlayerTerminates ==
    [][\A u \in Users, rid \in RoomIds :
         (/\ handle_leave_room(u, rid)
          /\ mem_lock = "free"
          /\ active_rooms[rid].exists
          /\ u \in Range(active_rooms[rid].players))
         =>
           LET rest == Remove(active_rooms[rid].players, u) IN
           /\ mem_lock' = "free"
           /\ IF rest = <<>>
              THEN ~active_rooms'[rid].exists
              ELSE /\ active_rooms'[rid].exists
                   /\ active_rooms'[rid].players = rest
                   /\ active_rooms'[rid].host =
                          IF active_rooms[rid].host = u THEN rest[1]
                          ELSE active_rooms[rid].host
      ]_vars


\* C16: no step adds a player to the players of a room whose status is not waiting
C16_NoJoinUnlessWaiting ==
    [][\A r \in RoomIds :
         (active_rooms[r].exists /\ active_rooms[r].status # "waiting")
         => Range(active_rooms'[r].players) \subseteq Range(active_rooms[r].players)
      ]_vars

\* C17: a room never holds more players than the settings.max_players it was
\* created with
C17_PlayersWithinSettingsMax ==
    \A r \in RoomIds :
        active_rooms[r].exists
        => Len(active_rooms[r].players) <= active_rooms[r].settings.max_players

LiveUsers == {u \in DOMAIN user_sessions : user_sessions[u].exists}

\* C18: every live user's username is 3 to 20 characters long, and no two live
\* users have the same username up to case
C18_UsernamesValidAndUnique ==
    /\ \A u \in LiveUsers :
           /\ Len(user_sessions[u].username) >= USERNAME_MIN
           /\ Len(user_sessions[u].username) <= USERNAME_MAX
    /\ \A u, v \in LiveUsers :
           u # v => Lower(user_sessions[u].username) # Lower(user_sessions[v].username)

\* user u may guess in room rid: the session names the room, a word is being drawn
\* by someone else, and u has not guessed it yet
MayGuess(u, rid) ==
    /\ user_sessions[u].exists
    /\ user_sessions[u].current_room = rid
    /\ active_rooms[rid].exists
    /\ phase[rid] = "drawing"
    /\ active_rooms[rid].game_state.current_drawer # u
    /\ u \notin Range(active_rooms[rid].game_state.players_guessed)

\* C19: a socket's disconnect leaves every room (players, host, scores, game_state),
\* every timer and every user session as they were; after it, a socket that carries
\* the user's identity gets room_joined on join_room for the room the user is still
\* a player of, and its guesses are processed: a wrong one is relayed, a right one
\* is scored
C19_DisconnectKeepsMembership ==
    [][\A s \in Sockets :
         /\ (sockets[s].connected /\ ~sockets'[s].connected)
            => UNCHANGED <<active_rooms, user_sessions, active_timers, phase>>
         /\ \A rid \in RoomIds :
              (/\ sockets[s].connected
               /\ Identity(s) # None
               /\ user_sessions[Identity(s)].exists
               /\ active_rooms[rid].exists
               /\ Identity(s) \in Range(active_rooms[rid].players)
               /\ on_join_room(s, rid))
              => /\ Emitted(emitted', "room_joined")
                 /\ user_sessions'[Identity(s)].current_room = rid
                 /\ UNCHANGED active_rooms
         /\ \A rid \in RoomIds, text \in GameGuesses, e \in GameElapsed :
              (/\ sockets[s].connected
               /\ Identity(s) # None
               /\ MayGuess(Identity(s), rid)
               /\ on_submit_guess(s, text, e, None))
              => IF CorrectGuess(Identity(s), rid, text)
                 THEN /\ Emitted(emitted', "correct_guess")
                      /\ ScoreOf(active_rooms'[rid], Identity(s))
                           > ScoreOf(active_rooms[rid], Identity(s))
                 ELSE Emitted(emitted', "chat_message")
      ]_vars

\* bob, whose only open socket was opened after a disconnect and authenticated
\* again, has just guessed alice's word
C19_Witness ==
    /\ \E s \in Sockets :
           /\ sockets[s].connected
           /\ sockets[s].authenticated = "bob"
           /\ sockets[s].session_username # NoWord
    /\ \A s \in Sockets :
           (sockets[s].connected /\ Identity(s) = "bob")
           => sockets[s].session_username # NoWord
    /\ Emitted(emitted, "correct_guess")
    /\ active_rooms["R1"].game_state.current_drawer = "alice"
    /\ "bob" \in Range(active_rooms["R1"].players)
    /\ ScoreOf(active_rooms["R1"], "bob") > 0

OnlyUnderscores(word) == \A i \in 1..Len(word) : word[i] = "_"

\* C22: of the word_selected payloads a step emits, by select_word or by the
\* auto-selection, one that reaches a socket of a user other than the room's current
\* drawer holds underscores only, never the word
C22_WordOnlyToDrawer ==
    [][\A r \in RoomIds : \A i \in 1..Len(emitted') :
          (active_rooms'[r].exists /\ emitted'[i].ev = "word_selected")
          => \A s \in ReceiversIn(emitted'[i], sockets', active_rooms') :
                 \/ /\ sockets'[s].authenticated # None
                    /\ sockets'[s].authenticated
                         = active_rooms'[r].game_state.current_drawer
                 \/ /\ OnlyUnderscores(emitted'[i].word)
                    /\ emitted'[i].word # active_rooms'[r].game_state.current_word
      ]_vars

\* bob has just become the drawer with a word; his socket gets it and alice's
\* socket gets the underscores
C22_Witness ==
    /\ active_rooms["R1"].game_state.current_drawer = "bob"
    /\ \E i \in 1..Len(emitted) :
           /\ emitted[i].ev = "word_selected"
           /\ emitted[i].word = active_rooms["R1"].game_state.current_word
           /\ \E s \in ReceiversIn(emitted[i], sockets, active_rooms) :
                  sockets[s].authenticated = "bob"
    /\ \E i \in 1..Len(emitted) :
           /\ emitted[i].ev = "word_selected"
           /\ OnlyUnderscores(emitted[i].word)
           /\ \E s \in ReceiversIn(emitted[i], sockets, active_rooms) :
                  sockets[s].authenticated = "alice"

\* C23: a guess_correct a step emits reaches the open sockets that carry the
\* guesser's identity, and no other socket
C23_GuessCorrectToGuesser ==
    [][\A i \in 1..Len(emitted') :
          emitted'[i].ev = "guess_correct"
          => ReceiversIn(emitted'[i], sockets', active_rooms')
               = {s \in Sockets : sockets'[s].connected /\ Identity(s) = emitted'[i].to}
      ]_vars

\* socket s is open and no handler finds a user_id for it
Anonymous(s) == sockets[s].connected /\ Identity(s) = None

\* the step is the handling of a game or room event that arrived on socket s
EventFrom(s) ==
    \/ \E rid \in PayloadRooms : on_join_room(s, rid)
    \/ on_start_game(s)
    \/ \E word \in GameWords : on_select_word(s, word, None)
    \/ \E text \in GameGuesses, e \in GameElapsed : on_submit_guess(s, text, e, None)
    \/ \E rid \in PayloadRooms : on_turn_timeout(s, rid)

\* C20: an event arriving on a socket without an authenticated identity changes no
\* user, room or timer, and its sender gets an error and nothing else
C20_AnonymousEventChangesNothing ==
    [][\A s \in Sockets :
         (Anonymous(s) /\ EventFrom(s))
         => /\ UNCHANGED <<user_sessions, active_rooms, active_timers, phase, mem_lock>>
            /\ emitted' = <<ErrorEv>>
      ]_vars

\* C21: a step emits draw_data only when a stroke event came from the current drawer
\* of the room it goes to; in particular none is emitted to a room that has no
\* current drawer
C21_DrawDataOnlyFromDrawer ==
    [][\A i \in 1..Len(emitted') :
          emitted'[i].ev = "draw_data"
          => /\ active_rooms[emitted'[i].to].game_state.current_drawer # None
             /\ \E u \in GameUsers, type \in DrawTypes, valid \in BOOLEAN :
                    /\ active_rooms[emitted'[i].to].game_state.current_drawer = u
                    /\ handle_draw(u, type, valid)
      ]_vars

\* the positions of word (from 1) that a rendered hint shows a letter at: a hint
\* joined by spaces has the character of position i at 2i - 1
RevealedIn(word, hint) ==
    IF Len(hint) = 2 * Len(word) - 1
    THEN {i \in 1..Len(word) : hint[2 * i - 1] \notin {"_", " "}}
    ELSE {i \in 1..Len(hint) : hint[i] \notin {"_", " "}}

Max(a, b) == IF a > b THEN a ELSE b

\* the first, last and middle letter of word, in that order
RevealOrder(word) ==
    <<1, Len(word), (Len(word) \div 2) + 1>>

HintUpdates(out) == {i \in 1..Len(out) : out[i].ev = "hint_update"}

\* C24: the hint for elapsed seconds t shows min(3, max(0, floor((t-10)/10)+1))
\* positions, taken in the order first, last, middle letter, each showing the
\* word's letter; a later hint of the same word shows every position an earlier
\* one showed; and "cat" gives C _ _ at 12 s, C _ T at 22 s, C A T at 32 s
C24_ProgressiveHint ==
    [][\A r \in RoomIds : \A j \in HintUpdates(emitted') :
          LET word == active_rooms[r].game_state.current_word
              t    == emitted'[j].n
              size == Min(3, Max(0, ((t - 10) \div 10) + 1))
              now  == RevealedIn(word, emitted'[j].word)
          IN /\ Cardinality(now) = size
             /\ now = {RevealOrder(word)[k] : k \in 1..size}
             /\ \A i \in now :
                    emitted'[j].word[2 * i - 1] = UpperChar(Lower(word)[i])
             /\ \A i \in HintUpdates(emitted) :
                    emitted[i].n <= t
                    => RevealedIn(word, emitted[i].word) \subseteq now
             /\ (word = Cat /\ t = 12) => emitted'[j].word = <<"C", " ", "_", " ", "_">>
             /\ (word = Cat /\ t = 22) => emitted'[j].word = <<"C", " ", "_", " ", "T">>
             /\ (word = Cat /\ t = 32) => emitted'[j].word = <<"C", " ", "A", " ", "T">>
      ]_vars

\* the hint of "cat" at 32 s has just been sent: all three letters show
C24_Witness ==
    /\ active_rooms["R1"].game_state.current_word = Cat
    /\ \E i \in HintUpdates(emitted) :
           /\ emitted[i].n = 32
           /\ emitted[i].word = <<"C", " ", "A", " ", "T">>

\* the step is the expiry of room r's running results timer
ResultsExpiry(r) ==
    /\ active_rooms[r].exists
    /\ active_timers[r].exists
    /\ active_timers[r].is_running
    /\ active_timers[r].callback = "results_timeout"
    /\ timer_expires(r)

\* C25: at the expiry of the results timer current_drawer_index goes up by one; at
\* len(drawer_order) it becomes 0 and current_round goes up by one, and then either
\* the game ends (current_round above settings.rounds) or round_complete is emitted
\* and the intermission timer runs before any round_started; with drawers left in
\* the round, round_started follows at once, with no intermission
C25_ResultsExpiryAdvances ==
    [][\A r \in RoomIds :
         ResultsExpiry(r)
         => LET gs   == active_rooms[r].game_state
                gs2  == active_rooms'[r].game_state
                next == gs.current_drawer_index + 1
            IN IF next >= Len(gs.drawer_order)
               THEN /\ gs2.current_drawer_index = 0
                    /\ gs2.current_round = gs.current_round + 1
                    /\ IF gs2.current_round > active_rooms[r].settings.rounds
                       THEN /\ active_rooms'[r].status = "ended"
                            /\ Emitted(emitted', "game_ended")
                       ELSE /\ Emitted(emitted', "round_complete")
                            /\ ~Emitted(emitted', "round_started")
                            /\ active_timers'[r].exists
                            /\ active_timers'[r].is_running
                            /\ active_timers'[r].timer_type = "intermission"
               ELSE /\ gs2.current_drawer_index = next
                    /\ gs2.current_round = gs.current_round
                    /\ Emitted(emitted', "round_started")
                    /\ ~Emitted(emitted', "round_complete")
      ]_vars

\* the step in which the game of room r ends: its status becomes ended
GameEnds(r) ==
    /\ active_rooms[r].exists /\ active_rooms[r].status # "ended"
    /\ active_rooms'[r].exists /\ active_rooms'[r].status = "ended"

\* the score a player of the room holds, scores.get(p, 0)
FinalScore(room, p) ==
    IF p \in DOMAIN room.game_state.scores THEN room.game_state.scores[p] ELSE 0

\* C26: in the step that makes a room's status ended, game_ended is emitted to the
\* room with final_results in descending order of score and winner its first entry,
\* no player of the room holds a score strictly above the winner's, and after the
\* step the room has no active timer
C26_GameEndSortedAndTimerless ==
    [][\A r \in RoomIds :
         GameEnds(r)
         => /\ \E i \in 1..Len(emitted') :
                  /\ emitted'[i].ev = "game_ended" /\ emitted'[i].to = r
                  /\ LET results == emitted'[i].scores.final_results
                         winner  == emitted'[i].scores.winner
                     IN /\ \A j, k \in 1..Len(results) :
                              j < k => results[j].score >= results[k].score
                        /\ results # <<>> /\ winner = results[1].player_id
                        /\ \A p \in Range(active_rooms'[r].players) :
                              FinalScore(active_rooms'[r], p) <= results[1].score
            /\ ~active_timers'[r].exists
      ]_vars

\* C27: a room whose status is ended keeps status, scores, current_round,
\* current_drawer and players_guessed through every later step, socket event or
\* timer callback
C27_EndedIsTerminal ==
    [][\A r \in RoomIds :
         (/\ active_rooms[r].exists /\ active_rooms[r].status = "ended"
          /\ active_rooms'[r].exists)
         => /\ active_rooms'[r].status = "ended"
            /\ active_rooms'[r].game_state.scores = active_rooms[r].game_state.scores
            /\ active_rooms'[r].game_state.current_round
                   = active_rooms[r].game_state.current_round
            /\ active_rooms'[r].game_state.current_drawer
                   = active_rooms[r].game_state.current_drawer
            /\ active_rooms'[r].game_state.players_guessed
                   = active_rooms[r].game_state.players_guessed
      ]_vars

\* the places of the event `name` among the events of a step
Places(out, name) == {i \in 1..Len(out) : out[i].ev = name}

\* C28: the events of a room come in this order: a game_started is followed in its
\* step by round_started with round 1 and then word_selection_started; a select_word
\* that announces the word emits word_selected and then drawing_started; and every
\* round_started but a game's first comes after a turn_ended with no other
\* round_started in between
C28_EventOrder ==
    [][\A r \in RoomIds :
         LET out == emitted' IN
         /\ \A i \in Places(out, "game_started") :
                \E j \in Places(out, "round_started") :
                \E k \in Places(out, "word_selection_started") :
                    i < j /\ j < k /\ out[j].n = 1
         /\ ((\E u \in Users, word \in SelectInputs, fb \in RoomIds \cup {None} :
                  select_word(u, word, fb))
              /\ Places(out, "word_selected") # {})
             => \E i \in Places(out, "word_selected") :
                \E k \in Places(out, "drawing_started") : i < k
         /\ \A k \in Places(out, "drawing_started") :
                \E i \in Places(out, "word_selected") : i < k
         /\ \A j \in Places(out, "round_started") :
                LET before == {i \in Places(out, "round_started")
                                      \cup Places(out, "turn_ended") : i < j}
                IN IF before = {} THEN ~turns_drawn[r].turn_open
                   ELSE out[CHOOSE i \in before : \A h \in before : h <= i].ev
                            = "turn_ended"
      ]_vars

\* C29: in every reachable state of a room the current drawer is not among the
\* players_guessed of the turn
C29_DrawerNeverGuessed ==
    \A r \in RoomIds :
        (active_rooms[r].exists /\ active_rooms[r].game_state.current_drawer # None)
        => active_rooms[r].game_state.current_drawer
               \notin Range(active_rooms[r].game_state.players_guessed)

C31_NoHintAfterTurnEnded ==
    \A i \in 1..Len(emitted) :
        emitted[i].ev = "hint_update" => turns_drawn[emitted[i].to].turn_open

\* C32: after an accepted start_game the room's timers alone take the game to its
\* end: a room with status = playing eventually has status = ended, whenever every
\* started timer runs to its expiry, whatever the clients send or do not send
C32_TimersFinishTheGame ==
    \A r \in RoomIds :
        Playing(r) ~> (active_rooms[r].exists /\ active_rooms[r].status = "ended")

\* current_drawer_index is a valid index of drawer_order and current_drawer is the
\* player at that index
DrawerIndexValid(room) ==
    /\ room.exists
    /\ room.game_state.full
    /\ 0 <= room.game_state.current_drawer_index
    /\ room.game_state.current_drawer_index < Len(room.game_state.drawer_order)
    /\ room.game_state.current_drawer
           = room.game_state.drawer_order[room.game_state.current_drawer_index + 1]

\* C33: during every active turn, from round_started until the turn's results timer
\* expires, current_drawer_index is a valid index of drawer_order (0 <= index < len)
\* and current_drawer is the player at that index: it is so while the turn is open
\* (round_started sent, no turn_ended since), and from then on no step other than
\* the expiry of the running results timer makes it false
C33_DrawerIndexValid ==
    /\ [](\A r \in RoomIds :
             (active_rooms[r].exists /\ turns_drawn[r].turn_open)
                 => DrawerIndexValid(active_rooms[r]))
    /\ [][\A r \in RoomIds :
             (/\ DrawerIndexValid(active_rooms[r])
              /\ turns_drawn[r].turn_open \/ ResultsRunning(r)
              /\ ~ResultsExpiry(r)
              /\ active_rooms'[r].exists)
                 => DrawerIndexValid(active_rooms'[r])]_vars

\* a second turn: the results timer of the first expired and the next player of
\* drawer_order draws
C33_Witness ==
    \E r \in RoomIds :
        /\ Playing(r)
        /\ turns_drawn[r].turn_open
        /\ active_rooms[r].game_state.current_drawer_index = 1
        /\ active_rooms[r].game_state.current_drawer
               = active_rooms[r].game_state.drawer_order[2]

\* C34: an accepted start_game (one that emits game_started) leaves the room with
\* status = playing, a score of 0 for every player and for nobody else,
\* current_round = 1, current_drawer_index = 0, empty words_used and
\* players_guessed, no current_word, and drawer_order a permutation of players
C34_StartGameInitialState ==
    [][\A u \in Users :
         (start_game(u) /\ Emitted(emitted', "game_started"))
             => LET rid  == user_sessions[u].current_room
                    room == active_rooms'[rid]
                    gs   == room.game_state
                IN /\ room.status = "playing"
                   /\ DOMAIN gs.scores = Range(room.players)
                   /\ \A p \in DOMAIN gs.scores : gs.scores[p] = 0
                   /\ gs.current_round = 1
                   /\ gs.current_drawer_index = 0
                   /\ gs.words_used = <<>>
                   /\ gs.players_guessed = <<>>
                   /\ gs.current_word = NoWord
                   /\ Len(gs.drawer_order) = Len(room.players)
                   /\ Range(gs.drawer_order) = Range(room.players)
                   /\ Cardinality(Range(gs.drawer_order)) = Len(gs.drawer_order)
      ]_vars

\* a start_game was just accepted: game_started and round_started went to the room
C34_Witness ==
    \E r \in RoomIds :
        /\ Emitted(emitted, "game_started")
        /\ Emitted(emitted, "round_started")
        /\ Playing(r)
        /\ Len(active_rooms[r].players) = 2

\* C35: a submit_guess that arrives while the caller's room is not in its drawing
\* phase is answered with an error and changes neither scores nor players_guessed,
\* also when the guess is the word of the turn that just ended
C35_GuessOutsideDrawingRejected ==
    [][\A u \in Users, text \in GuessInputs, e \in ElapsedTenths :
         LET rid == user_sessions[u].current_room IN
         (/\ submit_guess(u, text, e, None)
          /\ rid # None
          /\ get_room(rid).exists
          /\ phase[rid] # "drawing")
             => /\ Emitted(emitted', "error")
                /\ active_rooms'[rid].game_state.scores
                       = active_rooms[rid].game_state.scores
                /\ active_rooms'[rid].game_state.players_guessed
                       = active_rooms[rid].game_state.players_guessed
      ]_vars

\* C36: within one turn a player is scored for a correct guess at most once:
\* players_guessed of a room never lists a player twice, also when two correct
\* guesses of the same player are handled at the same time
C36_GuessedOnce ==
    \A r \in RoomIds :
        active_rooms[r].exists
            => Cardinality(Range(active_rooms[r].game_state.players_guessed))
                   = Len(active_rooms[r].game_state.players_guessed)

\* C37: exactly one word is fixed per turn: a step that adds to words_used adds one
\* word and is taken while the turn has no word yet (current_word is cleared at the
\* round's begin), and a turn that ends has a word; so between round_started and
\* turn_ended current_word is set once and words_used grows by exactly one
C37_OneWordPerTurn ==
    [][\A r \in RoomIds :
         (active_rooms[r].exists /\ active_rooms'[r].exists)
             => LET gs  == active_rooms[r].game_state
                    gs2 == active_rooms'[r].game_state
                IN /\ Len(gs2.words_used) > Len(gs.words_used)
                          => /\ gs.current_word = NoWord
                             /\ Len(gs2.words_used) = Len(gs.words_used) + 1
                   /\ (\E i \in 1..Len(emitted') :
                           emitted'[i].ev = "turn_ended" /\ emitted'[i].to = r)
                          => gs2.current_word # NoWord
      ]_vars

\* C38: each turn of a started game ends exactly once: a step emits turn_ended to a
\* playing room at most once and only while the room's turn is open (round_started
\* sent, no turn_ended since), and the next round_started or game_ended comes only
\* after the turn was closed by its turn_ended
C38_TurnEndsOnce ==
    [][\A r \in RoomIds :
         Playing(r) =>
         LET ended == {i \in Places(emitted', "turn_ended") : emitted'[i].to = r}
             next  == {i \in Places(emitted', "round_started")
                                \cup Places(emitted', "game_ended") :
                           emitted'[i].to = r}
         IN /\ ended # {} => (turns_drawn[r].turn_open /\ Cardinality(ended) = 1)
            /\ (next # {} /\ ~Emitted(emitted', "game_started"))
                   => ~turns_drawn[r].turn_open
      ]_vars

\* the rooms whose players list user u
RoomsOf(u) == {r \in RoomIds : active_rooms[r].exists /\ u \in Range(active_rooms[r].players)}

\* C39: for every user with a session, the rooms whose players contain the user are
\* none, or exactly the one room that the session's current_room names
C39_MemberOfCurrentRoomOnly ==
    \A u \in Users :
        user_sessions[u].exists
            => \/ RoomsOf(u) = {}
               \/ RoomsOf(u) = {user_sessions[u].current_room}

\* C40: a timer of duration d that runs to its expiry emits exactly d timer_update
\* events, and the time_remaining of each is what get_remaining_time returns for the
\* room at that moment: d minus the whole seconds elapsed since the timer started
C40_TimerUpdateIsRemaining ==
    \A i \in TimerIds :
        game_timers[i].made
            => /\ \A k \in 1..Len(emitted) :
                      (emitted[k].ev = "timer_update"
                       /\ emitted[k].to = game_timers[i].room)
                          => emitted[k].n = get_remaining_time(game_timers[i].room)
               /\ game_timers[i].thread \in {"check", "ran"}
                      => game_timers[i].sent = game_timers[i].duration

====
